---- MODULE Spec2Model ----
(***************************************************************************)
(* The knowledge-base page's progress engine (KnowledgePage):               *)
(*   - progressMap, mirrored in localStorage under "kb_progress_map";       *)
(*   - one progress WebSocket per listed knowledge base (wsConnectionsRef); *)
(*   - the handlers that change them (restore on mount, channel sync,       *)
(*     ws.onmessage, clearProgress, clearAllStuckProgress, handleCreate,    *)
(*     handleDelete).                                                       *)
(* and the solver page's session hook (useSolverSession):                   *)
(*   - session, mirrored in localStorage under "deeptutor-solver-session";  *)
(*   - every function the hook returns, with its requests to the backend,   *)
(*     the auto-save effect and the debounced save.                         *)
(* Time is in milliseconds, as Date.getTime() gives it.                     *)
(***************************************************************************)
EXTENDS Integers, Sequences, FiniteSets, TLC

\* ---------------------------------------------------------------- bounds
MaxKbs == 2        \* longest listing the backend returns
MaxSockets == 3    \* WebSocket objects constructed in one page life
MaxFetches == 1    \* fetchKnowledgeBases calls in flight at once
MaxTicks == 1      \* clock advances in one run
MaxCalls == 3      \* calls of the session hook's functions in one run
MaxWaits == 3      \* clock advances in one life of the session hook

\* ------------------------------------------------------------------ state
VARIABLES
  mounted,          \* the page component is mounted
  kbs,              \* useState<KnowledgeBase[]>: the listing, in order
  loading,          \* useState(true)
  progressMap,      \* useState<Record<string, ProgressInfo>>
  localStorage,     \* the item "kb_progress_map"
  storageOk,        \* localStorage.setItem succeeds (no quota error)
  wsConnectionsRef, \* name -> index of its WebSocket in sockets, 0 for none
  kbsNamesRef,      \* names at the last reconciliation
  sockets,          \* every WebSocket constructed, in construction order
  pendingFetches,   \* fetchKnowledgeBases calls awaiting their response
  removed,          \* the backend: KBs that DELETE /api/v1/knowledge/{name} removed
  now,              \* new Date().getTime()
  ticks,            \* clock advances so far
  prevRun,          \* history: the names the sync effect last ran with
  last,             \* history: what the last step did
  applied,          \* history: per KB, the data of the last message accepted on
                    \* its channel since the page last set its record otherwise
  hookMounted,      \* a component using useSolverSession is mounted
  options,          \* UseSolverSessionOptions: autoSave, autoLoad
  session,          \* useState<SolverSession | null>
  sessionIsLoading, \* useState(true): isLoading of the hook
  error,            \* useState<string | null>
  lastMessagesRef,  \* useRef<string>(""): JSON of the messages last saved
  sessionCache,     \* the item "deeptutor-solver-session"
  server,           \* the backend's active session
  requests,         \* requests of the hook awaiting their response
  calls,            \* calls of the hook's functions so far
  unsent,           \* history: arguments of the appends that failed since the
                    \* backend or the store last gave the session
  timers,           \* setTimeout calls of the debounced save not yet run
  lastSave,         \* history: the last call of the debounced save
  clearedAt         \* history: the number of the last clearSession call

hookVars == <<hookMounted, options, session, sessionIsLoading, error, lastMessagesRef,
              sessionCache, server, requests, calls, unsent, timers, lastSave, clearedAt>>

vars == <<mounted, kbs, loading, progressMap, localStorage, storageOk,
          wsConnectionsRef, kbsNamesRef, sockets, pendingFetches, removed, now,
          ticks, prevRun, last, applied, hookVars>>

\* ------------------------------------------------------ program constants
fiveMinutes == 5 * 60 * 1000
thirtyMinutes == 30 * 60 * 1000

\* The clock's first value: late enough for every age below to be a
\* positive time.
StartTime == 2 * thirtyMinutes

\* --------------------------------------------------------------- names
\* KB names are free text (the create form takes any string): two plain
\* names, and one that holds the separator join(",") puts between names
PlainNames == {"a", "b"}
Names == PlainNames \cup {"a,b"}

\* UTF-16 code units of a name (String.prototype.sort and join work on them)
Chars(n) ==
  CASE n = "a" -> <<97>>
    [] n = "b" -> <<98>>
    [] n = "a,b" -> <<97, 44, 98>>
    [] OTHER -> <<>>

Comma == <<44>>

\* a < b on strings, as the default Array.prototype.sort comparator has it
RECURSIVE CharsLess(_, _)
CharsLess(s, t) ==
  IF t = <<>> THEN FALSE
  ELSE IF s = <<>> THEN TRUE
  ELSE IF Head(s) # Head(t) THEN Head(s) < Head(t)
  ELSE CharsLess(Tail(s), Tail(t))

RECURSIVE InsertSorted(_, _)
InsertSorted(n, sorted) ==
  IF sorted = <<>> THEN <<n>>
  ELSE IF CharsLess(Chars(n), Chars(Head(sorted))) THEN <<n>> \o sorted
  ELSE <<Head(sorted)>> \o InsertSorted(n, Tail(sorted))

\* [...names].sort()
RECURSIVE SortNames(_)
SortNames(names) ==
  IF names = <<>> THEN <<>>
  ELSE InsertSorted(Head(names), SortNames(Tail(names)))

\* names.join(","): the string, as its code units
RECURSIVE JoinNames(_)
JoinNames(names) ==
  IF names = <<>> THEN <<>>
  ELSE IF Len(names) = 1 THEN Chars(Head(names))
  ELSE Chars(Head(names)) \o Comma \o JoinNames(Tail(names))

\* kbs.map((kb) => kb.name)
KbNames(list) == [i \in 1..Len(list) |-> list[i].name]

NameSet(names) == {names[i] : i \in 1..Len(names)}

\* the names of every listing of up to k knowledge bases
RECURSIVE NameListsUpTo(_)
NameListsUpTo(k) ==
  IF k = 0 THEN {<<>>}
  ELSE LET shorter == NameListsUpTo(k - 1)
       IN shorter \cup {Append(l, n) : l \in {x \in shorter : Len(x) = k - 1},
                                       n \in Names}

\* [...names].sort() of every list of names, computed once
SortedNames == [names \in NameListsUpTo(MaxKbs) |-> SortNames(names)]

\* [...names].sort().join(",") of every list of names, computed once
SortedJoinedNames ==
  [names \in NameListsUpTo(MaxKbs) |-> JoinNames(SortNames(names))]

\* ------------------------------------------------------- progress records
NonTerminalStages == {"initializing", "processing", "processing_file", "extracting"}
TerminalStages == {"completed", "error"}
Stages == NonTerminalStages \cup TerminalStages

\* progress.stage === "completed" || progress.stage === "error"
IsTerminal(stage) == stage = "completed" \/ stage = "error"

\* A timestamp field: absent or falsy (kind "none"), a string Date cannot
\* parse (kind "invalid": getTime() is NaN), or a time in ms (kind "time").
NoTimestamp == [kind |-> "none", ms |-> 0]
InvalidTimestamp == [kind |-> "invalid", ms |-> 0]
TimeAt(t) == [kind |-> "time", ms |-> t]

\* if (progress.timestamp): the field is there and not falsy
HasTimestamp(ts) == ts.kind # "none" /\ ~(ts.kind = "time" /\ ts.ms = 0)

\* No entry under a key of progressMap
Absent == [stage |-> "absent", timestamp |-> NoTimestamp, percent |-> 0]

EmptyMap == [n \in Names |-> Absent]

\* JSON.stringify(map): the members of the object, one per own key
Stringify(map) == {<<n, map[n]>> : n \in {m \in Names : map[m] # Absent}}

\* JSON.parse(text): the object with the members of the text
Parse(text) ==
  [n \in Names |->
     IF \E p \in text : p[1] = n THEN (CHOOSE p \in text : p[1] = n)[2] ELSE Absent]

\* The item under "kb_progress_map": getItem gives null when the key was
\* never written, the stored text otherwise
Null == [present |-> FALSE, text |-> {}]
Item(text) == [present |-> TRUE, text |-> text]

\* localStorage.setItem(key, value): throws when the store refuses the write
\* (quota); every call site catches and logs, the old item stays
SetItem(item, value, ok) == IF ok THEN Item(value) ELSE item

\* ------------------------------------------------- restore effect (mount)
\* Variants of KeepOnLoad with one slip each: the finished stages forgotten
\* in the timestamp branch, records without a timestamp kept, <= for <.
KeepOnLoadRecentOnly(progress, t) ==
  IF HasTimestamp(progress.timestamp)
  THEN /\ progress.timestamp.kind = "time"
       /\ t - progress.timestamp.ms < thirtyMinutes
  ELSE progress.stage = "completed" \/ progress.stage = "error"

KeepOnLoadUntimed(progress, t) ==
  IF HasTimestamp(progress.timestamp)
  THEN \/ progress.stage = "completed"
       \/ progress.stage = "error"
       \/ /\ progress.timestamp.kind = "time"
          /\ t - progress.timestamp.ms < thirtyMinutes
  ELSE TRUE

KeepOnLoadInclusive(progress, t) ==
  IF HasTimestamp(progress.timestamp)
  THEN \/ progress.stage = "completed"
       \/ progress.stage = "error"
       \/ /\ progress.timestamp.kind = "time"
          /\ t - progress.timestamp.ms <= thirtyMinutes
  ELSE progress.stage = "completed" \/ progress.stage = "error"

\* "Keep if: completed, error, or recent (< 30 min)"; without a timestamp,
\* keep completed/error only.  An unparsable timestamp gives age NaN, and
\* NaN < thirtyMinutes is false.
KeepOnLoad(progress, t) ==
  IF HasTimestamp(progress.timestamp)
  THEN \/ progress.stage = "completed"
       \/ progress.stage = "error"
       \/ /\ progress.timestamp.kind = "time"
          /\ t - progress.timestamp.ms < thirtyMinutes
  ELSE progress.stage = "completed" \/ progress.stage = "error"

\* Cleaned giving each record it keeps the time of the restore
CleanedRestamped(parsed, t) ==
  [n \in Names |->
     IF parsed[n] # Absent /\ KeepOnLoad(parsed[n], t)
     THEN [parsed[n] EXCEPT !.timestamp = TimeAt(t)] ELSE Absent]

\* the forEach over Object.entries(parsed) that fills `cleaned`
Cleaned(parsed, t) ==
  [n \in Names |->
     IF parsed[n] # Absent /\ KeepOnLoad(parsed[n], t) THEN parsed[n] ELSE Absent]

\* --------------------------------------------------------- ws.onmessage
\* Variants of IgnoreStale with one slip each: the rag_initialized test
\* dropped, the window of the restore effect used, the stage test dropped.
IgnoreStaleEveryKb(ragInitialized, data, t) ==
  /\ data.stage # "completed" /\ data.stage # "error"
  /\ \/ ~HasTimestamp(data.timestamp)
     \/ data.timestamp.kind = "invalid"
     \/ t - data.timestamp.ms > fiveMinutes

IgnoreStaleHalfHour(ragInitialized, data, t) ==
  /\ ragInitialized
  /\ data.stage # "completed" /\ data.stage # "error"
  /\ \/ ~HasTimestamp(data.timestamp)
     \/ data.timestamp.kind = "invalid"
     \/ t - data.timestamp.ms > thirtyMinutes

IgnoreStaleAnyStage(ragInitialized, data, t) ==
  /\ ragInitialized
  /\ \/ ~HasTimestamp(data.timestamp)
     \/ data.timestamp.kind = "invalid"
     \/ t - data.timestamp.ms > fiveMinutes

\* IgnoreStale dropping an update of exactly five minutes too
IgnoreStaleAtWindow(ragInitialized, data, t) ==
  /\ ragInitialized
  /\ data.stage # "completed" /\ data.stage # "error"
  /\ \/ ~HasTimestamp(data.timestamp)
     \/ data.timestamp.kind = "invalid"
     \/ t - data.timestamp.ms >= fiveMinutes

\* IgnoreStale taking "completed" for the only final stage
IgnoreStaleErrorToo(ragInitialized, data, t) ==
  /\ ragInitialized
  /\ data.stage # "completed"
  /\ \/ ~HasTimestamp(data.timestamp)
     \/ data.timestamp.kind = "invalid"
     \/ t - data.timestamp.ms > fiveMinutes

\* The stale check: for a KB whose captured statistics say rag_initialized,
\* an in-progress update is dropped when it has no usable time or is older
\* than five minutes.  progressTime is 0 without a timestamp and NaN for an
\* unparsable one; !progressTime is true for both.
IgnoreStale(ragInitialized, data, t) ==
  /\ ragInitialized
  /\ data.stage # "completed" /\ data.stage # "error"
  /\ \/ ~HasTimestamp(data.timestamp)
     \/ data.timestamp.kind = "invalid"
     \/ t - data.timestamp.ms > fiveMinutes

\* IsProgress without the test of data.data
IsProgressOfType(msg) == msg.type = "progress"

\* data.type === "progress" && data.data
IsProgress(msg) == msg.type = "progress" /\ msg.hasData

\* whether the handler reaches setProgressMap
Accepts(ragInitialized, msg, t) ==
  /\ msg.parsable
  /\ IsProgress(msg)
  /\ ~IgnoreStale(ragInitialized, msg.data, t)

\* PutRecord with the spread after the new member: {[kb.name]: data.data, ...prev}
PutRecordUnderPrev(prev, name, data) ==
  IF prev[name] = Absent THEN [prev EXCEPT ![name] = data] ELSE prev

\* PutRecord without the spread of prev: {[kb.name]: data.data}
PutRecordAlone(prev, name, data) == [EmptyMap EXCEPT ![name] = data]

\* PutRecord stamping the record with the clock at receipt
PutRecordStamped(prev, name, data) ==
  [prev EXCEPT ![name] = [data EXCEPT !.timestamp = TimeAt(now)]]

\* the updater: {...prev, [kb.name]: data.data}
PutRecord(prev, name, data) == [prev EXCEPT ![name] = data]

\* ---------------------------------------------- clearProgress and friends
\* DeleteRecord starting from an empty object instead of {...prev}
DeleteRecordFromEmpty(prev, name) == EmptyMap

\* the updater of clearProgress: delete updated[kbName]
DeleteRecord(prev, name) == [prev EXCEPT ![name] = Absent]

\* OnlyFinished keeping the completed records only
OnlyCompleted(prev) ==
  [n \in Names |-> IF prev[n].stage = "completed" THEN prev[n] ELSE Absent]

\* the updater of clearAllStuckProgress: only completed and error stay
OnlyFinished(prev) ==
  [n \in Names |-> IF prev[n].stage = "completed" \/ prev[n].stage = "error"
                   THEN prev[n] ELSE Absent]

\* the record handleCreate stores for the new KB
InitialProgress(t) ==
  [stage |-> "initializing", timestamp |-> TimeAt(t), percent |-> 0]

\* setKbs updater of handleCreate: add to list (if not exists)
AddKb(prev, newKb) ==
  IF \E i \in 1..Len(prev) : prev[i].name = newKb.name THEN prev
  ELSE <<newKb>> \o prev

\* ------------------------------------------------------ channel registry
\* ws.readyState === WebSocket.OPEN || ws.readyState === WebSocket.CONNECTING
IsLive(ws) == ws.readyState = "OPEN" \/ ws.readyState = "CONNECTING"

\* if (live) ws.close(): close() moves a live socket to CLOSING
CloseSocket(ws) == IF IsLive(ws) THEN [ws EXCEPT !.readyState = "CLOSING"] ELSE ws

NoConnections == [n \in Names |-> 0]

\* Object.keys(wsConnectionsRef.current)
ConnKeys(conns) == {n \in Names : conns[n] # 0}

\* NamesUnchanged without the two sort() calls
NamesUnchangedUnsorted(list, prevNames, conns) ==
  LET currentKbNamesStr == JoinNames(KbNames(list))
      prevKbNamesStr == JoinNames(prevNames)
  IN /\ currentKbNamesStr = prevKbNamesStr
     /\ currentKbNamesStr # <<>>
     /\ ConnKeys(conns) # {}

\* NamesUnchanged skipping only while no socket of the registry is CLOSED
NamesUnchangedWhileLive(list, prevNames, conns) ==
  LET currentKbNamesStr == JoinNames(SortNames(KbNames(list)))
      prevKbNamesStr == JoinNames(SortNames(prevNames))
  IN /\ currentKbNamesStr = prevKbNamesStr
     /\ currentKbNamesStr # <<>>
     /\ ConnKeys(conns) # {}
     /\ \A n \in ConnKeys(conns) : sockets[conns[n]].readyState # "CLOSED"

\* "If KB names haven't changed, don't re-establish connections"
NamesUnchanged(list, prevNames, conns) ==
  LET currentKbNamesStr == SortedJoinedNames[KbNames(list)]
      prevKbNamesStr == SortedJoinedNames[prevNames]
  IN /\ currentKbNamesStr = prevKbNamesStr
     /\ currentKbNamesStr # <<>>
     /\ ConnKeys(conns) # {}

\* NeedsSocket asking for an OPEN socket where the code asks for one that is
\* not CLOSED
NeedsSocketUnlessOpen(conns, socks, name) ==
  ~(conns[name] # 0 /\ socks[conns[name]].readyState = "OPEN")

\* "Only create new connection if one doesn't exist": the forEach body goes
\* on to new WebSocket(...) unless the name has a socket that is not CLOSED
NeedsSocket(conns, socks, name) ==
  ~(conns[name] # 0 /\ socks[conns[name]].readyState # "CLOSED")

\* kbs.forEach((kb) => ...) from the i-th KB on; connections and
\* wsConnectionsRef.current get the same assignments, so one map stands for both
RECURSIVE OpenLoop(_, _, _, _)
OpenLoop(list, i, conns, socks) ==
  IF i > Len(list) THEN [conns |-> conns, socks |-> socks]
  ELSE IF ~NeedsSocket(conns, socks, list[i].name)
       THEN OpenLoop(list, i + 1, conns, socks)
       ELSE LET ws == [name |-> list[i].name,
                       ragInitialized |-> list[i].rag_initialized,
                       readyState |-> "CONNECTING"]
                socks2 == Append(socks, ws)
            IN OpenLoop(list, i + 1,
                        [conns EXCEPT ![list[i].name] = Len(socks2)], socks2)

\* "Close old connections that are no longer needed"
CloseLoop(list, conns, socks) ==
  LET gone == {n \in ConnKeys(conns) : ~\E i \in 1..Len(list) : list[i].name = n}
  IN [conns |-> [n \in Names |-> IF n \in gone THEN 0 ELSE conns[n]],
      socks |-> [h \in 1..Len(socks) |->
                   IF \E n \in gone : conns[n] = h THEN CloseSocket(socks[h])
                   ELSE socks[h]]]

\* CloseAll closing the OPEN sockets only
CloseAllOpenOnly(conns, socks) ==
  [conns |-> NoConnections,
   socks |-> [h \in 1..Len(socks) |->
                IF /\ \E n \in ConnKeys(conns) : conns[n] = h
                   /\ socks[h].readyState = "OPEN"
                THEN CloseSocket(socks[h])
                ELSE socks[h]]]

\* Close every socket of the registry and empty it (kbs.length === 0, and
\* the unmount cleanup)
CloseAll(conns, socks) ==
  [conns |-> NoConnections,
   socks |-> [h \in 1..Len(socks) |->
                IF \E n \in ConnKeys(conns) : conns[n] = h THEN CloseSocket(socks[h])
                ELSE socks[h]]]

\* The effect on [kbs, loading].  Gives the registry, the remembered names
\* and the sockets after it ran; `ran` is false when it returned at the
\* loading check, `skipped` true when it returned at the names check.
SyncEffect(list, isLoading, conns, prevNames, socks) ==
  IF isLoading
  THEN [conns |-> conns, names |-> prevNames, socks |-> socks,
        ran |-> FALSE, skipped |-> FALSE]
  ELSE IF NamesUnchanged(list, prevNames, conns)
  THEN [conns |-> conns, names |-> prevNames, socks |-> socks,
        ran |-> TRUE, skipped |-> TRUE]
  ELSE IF Len(list) = 0
  THEN LET c == CloseAll(conns, socks)
       IN [conns |-> c.conns, names |-> <<>>, socks |-> c.socks,
           ran |-> TRUE, skipped |-> FALSE]
  ELSE LET c == CloseLoop(list, conns, socks)
           o == OpenLoop(list, 1, c.conns, c.socks)
       IN [conns |-> o.conns, names |-> KbNames(list), socks |-> o.socks,
           ran |-> TRUE, skipped |-> FALSE]

\* PersistEffect left out
PersistEffectSkipped(item, map, ok) == item

\* the persist effect on [progressMap]: runs after every render in which
\* progressMap is a new object
PersistEffect(item, map, ok) == SetItem(item, Stringify(map), ok)

\* ------------------------------------------------------------ input sets
KnowledgeBases == [name : PlainNames, rag_initialized : BOOLEAN]

RECURSIVE ListsUpTo(_)
ListsUpTo(k) ==
  IF k = 0 THEN {<<>>}
  ELSE LET shorter == ListsUpTo(k - 1)
       IN shorter \cup {Append(l, kb) : l \in {x \in shorter : Len(x) = k - 1},
                                        kb \in KnowledgeBases}

\* what /api/v1/knowledge/list may answer
Listings == ListsUpTo(MaxKbs)

\* ages of the timestamps the backend puts in a progress message
MsgAges == {0, fiveMinutes, fiveMinutes + 1}

\* stages the backend's progress messages carry here: the handler only asks
\* whether a stage is "completed" or "error"
MsgStages == {"initializing", "processing_file", "completed", "error"}

PercentOf(stage) ==
  CASE stage = "initializing" -> 0
    [] stage = "completed" -> 100
    [] OTHER -> 40

ProgressData(t) ==
  {[stage |-> st, timestamp |-> ts, percent |-> PercentOf(st)] :
     st \in MsgStages,
     ts \in {NoTimestamp, InvalidTimestamp} \cup {TimeAt(t - a) : a \in MsgAges}}

NoData == Absent

ProgressMsg(data) ==
  [parsable |-> TRUE, type |-> "progress", hasData |-> TRUE, data |-> data]

\* event.data that is no progress update: not JSON, a progress message
\* without data, an error message, any other type
OtherMsgs ==
  {[parsable |-> FALSE, type |-> "", hasData |-> FALSE, data |-> NoData],
   [parsable |-> TRUE, type |-> "progress", hasData |-> FALSE, data |-> NoData],
   [parsable |-> TRUE, type |-> "error", hasData |-> FALSE, data |-> NoData],
   [parsable |-> TRUE, type |-> "status", hasData |-> TRUE, data |-> NoData]}

Messages(t) == {ProgressMsg(d) : d \in ProgressData(t)} \cup OtherMsgs

NoMsg == [parsable |-> FALSE, type |-> "", hasData |-> FALSE, data |-> NoData]

\* records an earlier page life may have left in localStorage
StoredAges == {thirtyMinutes - 1, thirtyMinutes, thirtyMinutes + 1}

StoredRecords ==
  {[stage |-> st, timestamp |-> ts, percent |-> PercentOf(st)] :
     st \in {"processing", "completed"},
     ts \in {NoTimestamp, InvalidTimestamp}
              \cup {TimeAt(StartTime - a) : a \in StoredAges}}

InitialItems ==
  {Null} \cup {Item(Stringify(m)) :
                m \in {x \in [Names -> StoredRecords \cup {Absent}] : x["a,b"] = Absent}}

\* ------------------------------------------------ solver session (hook)
\* session === null
NoSession == [present |-> FALSE, id |-> "", messages |-> <<>>, message_count |-> 0]

\* A SolverSession: its id, its messages in order and message_count.  The
\* other fields (title, knowledge_base, token_stats, dates, is_active) go
\* unread and unchanged through every function modelled here.
SolverSession(id, messages, count) ==
  [present |-> TRUE, id |-> id, messages |-> messages, message_count |-> count]

\* outputDir || null
NoDir == ""
NullDir == "null"

SolverMessage(role, content, outputDir, t) ==
  [role |-> role, content |-> content,
   output_dir |-> IF outputDir = NoDir THEN NullDir ELSE outputDir,
   timestamp |-> t]

\* JSON.stringify(session): the object's members in key order
StringifySession(s) == <<"json", s.id, s.messages, s.message_count>>

\* what an interrupted or foreign write may have left under the key
CorruptText == <<"{">>

\* JSON.parse(text); throws on text that is no JSON
Parsable(text) == Len(text) = 4 /\ text[1] = "json"
ParseSession(text) == SolverSession(text[2], text[3], text[4])

\* The item under STORAGE_KEY
NoItem == [present |-> FALSE, text |-> <<>>]
SessionItem(text) == [present |-> TRUE, text |-> text]

\* LoadFromCache that never reads the item
LoadFromCacheNever(item) == NoSession

\* loadFromCache: null when there is no item or it does not parse
LoadFromCache(item) ==
  IF item.present /\ Parsable(item.text) THEN ParseSession(item.text) ELSE NoSession

\* SaveToCache letting the exception of setItem through
SaveToCacheUncaught(item, s, ok) ==
  [item |-> IF ok THEN SessionItem(StringifySession(s)) ELSE item, threw |-> ~ok]

\* saveToCache: setItem in try/catch; a refused write is logged and the old
\* item stays
SaveToCache(item, s, ok) ==
  [item |-> IF ok THEN SessionItem(StringifySession(s)) ELSE item, threw |-> FALSE]

\* lastMessagesRef.current: "" at first, then JSON.stringify(messages)
EmptyRef == [empty |-> TRUE, messages |-> <<>>]
RefOf(messages) == [empty |-> FALSE, messages |-> messages]

\* The auto-save effect on [autoSave, session, saveToCache], after a render
\* with a new session object
AutoSaveEffect(opts, s, item, ref, ok) ==
  IF opts.autoSave /\ s.present /\ RefOf(s.messages) # ref
  THEN [item |-> SaveToCache(item, s, ok).item, ref |-> RefOf(s.messages),
        threw |-> SaveToCache(item, s, ok).threw]
  ELSE [item |-> item, ref |-> ref, threw |-> FALSE]

\* OptimisticUpdate without ...session.messages
OptimisticUpdateAlone(s, role, content, outputDir, t) ==
  [s EXCEPT !.messages = <<SolverMessage(role, content, outputDir, t)>>,
            !.message_count = @ + 1]

\* the catch branch of addMessage: the captured session with the message
\* appended and message_count + 1
OptimisticUpdate(s, role, content, outputDir, t) ==
  [s EXCEPT !.messages = Append(@, SolverMessage(role, content, outputDir, t)),
            !.message_count = @ + 1]

\* POST /sessions/{id}/messages at the backend: it appends the message and
\* answers with the session
ServerAppend(s, role, content, outputDir, t) ==
  [s EXCEPT !.messages = Append(@, SolverMessage(role, content, outputDir, t)),
            !.message_count = Len(s.messages) + 1]

\* the arguments of addMessage; none for the other calls
NoInput == [role |-> "", content |-> "", outputDir |-> NoDir]

\* AddResult taking the local update whatever the backend answered
AddResultLocal(outcome, data, updatedSession) == updatedSession

\* what addMessage sets, saves and returns: the backend's answer when
\* response.ok, the optimistic update otherwise
AddResult(outcome, data, updatedSession) ==
  IF outcome = "ok" THEN data ELSE updatedSession

\* debounceMs = 1000
DefaultDebounceMs == 1000

DefaultOptions ==
  [autoSave |-> TRUE, autoLoad |-> TRUE, debounceMs |-> DefaultDebounceMs]

\* ClearCache leaving the item in place
ClearCacheKeeps(item) == item

\* clearCache: removeItem
ClearCache(item) == NoItem

\* HasActiveSession without the test
HasActiveSessionAlways(s) == TRUE

\* the guard of addMessage and updateTokenStats: if (!session) return
HasActiveSession(s) == s.present

\* DeleteClears not comparing the ids
DeleteClearsAnyId(outcome, captured, sessionId) ==
  outcome = "ok" /\ captured.present

\* DeleteClears not looking at response.ok
DeleteClearsAnyStatus(outcome, captured, sessionId) ==
  captured.present /\ captured.id = sessionId

\* deleteSession: response.ok && session?.id === sessionId, the session
\* being the one its closure holds
DeleteClears(outcome, captured, sessionId) ==
  outcome = "ok" /\ captured.present /\ captured.id = sessionId

\* UpdateTokenStatsThrows with the rejection of fetch let through
UpdateTokenStatsUncaught(outcome) == outcome = "network"

\* updateTokenStats: fetch in try/catch, the response not looked at
UpdateTokenStatsThrows(outcome) == FALSE

\* POST /sessions at the backend: a new, empty session that is now the
\* active one; n tells the sessions created apart
ServerCreate(n) == SolverSession(IF n = 1 THEN "c1" ELSE IF n = 2 THEN "c2"
                                 ELSE IF n = 3 THEN "c3" ELSE "c4", <<>>, 0)

\* DELETE /sessions/{id} at the backend
ServerDelete(s, sessionId) == IF s.present /\ s.id = sessionId THEN NoSession ELSE s

\* what debouncedSave reads of sessionToSave
SessionToSave(id, title, knowledgeBase) ==
  [id |-> id, title |-> title, knowledge_base |-> knowledgeBase]

NoSessionToSave == SessionToSave("", "", "")

\* a pending setTimeout(() => func(...args), wait); doomed is history: the
\* session was cleared or deleted while it was pending
Timer(due, args) == [due |-> due, args |-> args, doomed |-> FALSE]

\* Debounce without clearTimeout
DebounceNoCancel(pending, args, t, wait) == pending \cup {Timer(t + wait, args)}

\* the function debounce returns: if (timeout) clearTimeout(timeout);
\* timeout = setTimeout(..., wait)
Debounce(pending, args, t, wait) == {Timer(t + wait, args)}

\* history of the debounced save: the time and argument of its last call,
\* how many calls the run of calls it ends has, each of which cancelled the
\* timeout of the one before, and the PUTs issued since that run began
NoSave == [has |-> FALSE, at |-> 0, args |-> NoSessionToSave, burst |-> 0, writes |-> 0]

\* how a request ends: response.ok, another status, or fetch rejects
Outcomes == {"ok", "status", "network"}

\* ---------------------------------------------------------------- history
\* what a key of progressMap holds: nothing, a finished or an unfinished record
KindOf(progress) ==
  IF progress = Absent THEN "absent"
  ELSE IF IsTerminal(progress.stage) THEN "terminal" ELSE "nonterminal"

\* a field of the history that the step does not set
Unset == <<>>

NoStep ==
  [op |-> "", kb |-> "", msg |-> Unset, ragInitialized |-> FALSE,
   accepted |-> FALSE, wrote |-> FALSE, prevKind |-> "absent", saved |-> Unset,
   purge |-> "none", outcome |-> "none", request |-> 0, captured |-> Unset,
   input |-> Unset, result |-> Unset, threw |-> FALSE,
   id |-> "", returned |-> FALSE, args |-> Unset, written |-> FALSE,
   doomed |-> FALSE, due |-> 0,
   ran |-> FALSE, skipped |-> FALSE, opened |-> 0, closed |-> 0]

Step(op) == [NoStep EXCEPT !.op = op]

\* a step that ran the sync effect
SyncStep(step, r, socksBefore) ==
  [step EXCEPT
     !.ran = r.ran, !.skipped = r.skipped,
     !.opened = Len(r.socks) - Len(socksBefore),
     !.closed = Cardinality({h \in 1..Len(socksBefore) :
                               IsLive(socksBefore[h]) /\ ~IsLive(r.socks[h])})]

NoRun == [has |-> FALSE, names |-> <<>>]

RunOf(r, list, before) ==
  IF r.ran THEN [has |-> TRUE, names |-> SortedNames[KbNames(list)]] ELSE before

\* ------------------------------------------------------------------- Init
\* the session hook before any component uses it
InitHook ==
  /\ hookMounted = FALSE
  /\ options = DefaultOptions
  /\ session = NoSession
  /\ sessionIsLoading = TRUE
  /\ error = ""
  /\ lastMessagesRef = EmptyRef
  /\ requests = {}
  /\ calls = 0
  /\ unsent = {}
  /\ timers = {}
  /\ lastSave = NoSave
  /\ clearedAt = 0

\* the knowledge-base page before it mounts
InitPage ==
  /\ mounted = FALSE
  /\ kbs = <<>>
  /\ loading = TRUE
  /\ progressMap = EmptyMap
  /\ applied = EmptyMap
  /\ localStorage \in InitialItems
  /\ storageOk = TRUE
  /\ wsConnectionsRef = NoConnections
  /\ kbsNamesRef = <<>>
  /\ sockets = <<>>
  /\ pendingFetches = 0
  /\ removed = {}
  /\ now = StartTime
  /\ ticks = 0
  /\ prevRun = NoRun
  /\ last = Step("init")

\* the knowledge-base page alone: no session at the backend or in the store
Init ==
  /\ InitPage
  /\ InitHook
  /\ sessionCache = NoItem
  /\ server = NoSession

\* ---------------------------------------------------------------- actions
registryVars == <<wsConnectionsRef, kbsNamesRef, sockets, prevRun>>
storeVars == <<progressMap, localStorage, applied>>
clockVars == <<now, ticks>>

\* The component mounts: the restore effect, the persist effect of the first
\* render (progressMap is still {}), the first fetchKnowledgeBases, the sync
\* effect (loading: returns at once), then the render setProgressMap(cleaned)
\* asked for and its persist effect.
Mount ==
  /\ ~mounted
  /\ mounted' = TRUE
  /\ kbs' = <<>>
  /\ loading' = TRUE
  /\ LET saved == localStorage
         restored == saved.present
         cleaned == IF restored THEN Cleaned(Parse(saved.text), now) ELSE EmptyMap
         afterRestore == IF restored
                         THEN SetItem(saved, Stringify(cleaned), storageOk)
                         ELSE saved
         afterFirstRender == PersistEffect(afterRestore, EmptyMap, storageOk)
     IN /\ progressMap' = cleaned
        /\ applied' = EmptyMap
        /\ localStorage' = IF restored
                           THEN PersistEffect(afterFirstRender, cleaned, storageOk)
                           ELSE afterFirstRender
  /\ wsConnectionsRef' = NoConnections
  /\ kbsNamesRef' = <<>>
  /\ prevRun' = NoRun
  /\ pendingFetches' = 1
  /\ last' = [Step("mount") EXCEPT
                !.wrote = storageOk,
                !.saved = IF localStorage.present THEN Parse(localStorage.text)
                          ELSE EmptyMap]
  /\ UNCHANGED <<hookVars, removed>>
  /\ UNCHANGED <<storageOk, sockets, clockVars>>

\* The cleanup of the unmount effect.  State setters of an unmounted
\* component do nothing, so responses still awaited are dropped.
Unmount ==
  /\ mounted
  /\ mounted' = FALSE
  /\ LET c == CloseAll(wsConnectionsRef, sockets)
     IN /\ wsConnectionsRef' = c.conns
        /\ sockets' = c.socks
        /\ last' = [Step("unmount") EXCEPT
                      !.closed = Cardinality({h \in 1..Len(sockets) :
                                   IsLive(sockets[h]) /\ ~IsLive(c.socks[h])})]
  /\ pendingFetches' = 0
  /\ UNCHANGED <<hookVars, removed>>
  /\ UNCHANGED <<kbs, loading, storeVars, storageOk, kbsNamesRef, prevRun, clockVars>>

\* the sync effect after a render with the given kbs and loading
RunSync(step, list, isLoading) ==
  \E r \in {SyncEffect(list, isLoading, wsConnectionsRef, kbsNamesRef, sockets)} :
     /\ Len(r.socks) <= MaxSockets
     /\ wsConnectionsRef' = r.conns
     /\ kbsNamesRef' = r.names
     /\ sockets' = r.socks
     /\ prevRun' = RunOf(r, list, prevRun)
     /\ last' = SyncStep(step, r, sockets)

\* fetchKnowledgeBases() is called (refresh button, after upload, delete,
\* create ...): setLoading(true)
FetchStart ==
  /\ mounted
  /\ pendingFetches < MaxFetches
  /\ pendingFetches' = pendingFetches + 1
  /\ loading' = TRUE
  /\ IF loading THEN /\ UNCHANGED registryVars
                     /\ last' = Step("fetchStart")
     ELSE RunSync(Step("fetchStart"), kbs, TRUE)
  /\ UNCHANGED <<hookVars, removed>>
  /\ UNCHANGED <<mounted, kbs, storeVars, storageOk, clockVars>>

\* the listing arrives: setKbs(data), setLoading(false)
FetchOk(data) ==
  /\ mounted
  /\ pendingFetches > 0
  /\ pendingFetches' = pendingFetches - 1
  /\ kbs' = data
  /\ loading' = FALSE
  /\ RunSync(Step("fetchOk"), data, FALSE)
  /\ UNCHANGED <<hookVars, removed>>
  /\ UNCHANGED <<mounted, storeVars, storageOk, clockVars>>

\* the listing fails (network, status, not an array): setError, setLoading(false);
\* the sync effect runs only if loading changed
FetchFail ==
  /\ mounted
  /\ pendingFetches > 0
  /\ pendingFetches' = pendingFetches - 1
  /\ loading' = FALSE
  /\ IF loading THEN RunSync(Step("fetchFail"), kbs, FALSE)
     ELSE /\ UNCHANGED registryVars
          /\ last' = Step("fetchFail")
  /\ UNCHANGED <<hookVars, removed>>
  /\ UNCHANGED <<mounted, kbs, storeVars, storageOk, clockVars>>

\* ws.onopen
SocketOpen(h) ==
  /\ sockets[h].readyState = "CONNECTING"
  /\ sockets' = [sockets EXCEPT ![h].readyState = "OPEN"]
  /\ last' = Step("open")
  /\ UNCHANGED <<hookVars, removed>>
  /\ UNCHANGED <<mounted, kbs, loading, storeVars, storageOk, wsConnectionsRef,
                 kbsNamesRef, prevRun, pendingFetches, clockVars>>

\* ws.onerror / ws.onclose: the transport fails or the closing handshake
\* ends; the handlers only log
SocketClosed(h) ==
  /\ sockets[h].readyState # "CLOSED"
  /\ sockets' = [sockets EXCEPT ![h].readyState = "CLOSED"]
  /\ last' = [Step("closed") EXCEPT !.kb = sockets[h].name]
  /\ UNCHANGED <<hookVars, removed>>
  /\ UNCHANGED <<mounted, kbs, loading, storeVars, storageOk, wsConnectionsRef,
                 kbsNamesRef, prevRun, pendingFetches, clockVars>>

\* ws.onmessage of socket h; kb is the KB object the handler closed over
OnMessage(h, msg) ==
  /\ mounted
  /\ sockets[h].readyState = "OPEN"
  /\ LET kbName == sockets[h].name
         rag == sockets[h].ragInitialized
         accepted == Accepts(rag, msg, now)
         updated == PutRecord(progressMap, kbName, msg.data)
     IN /\ progressMap' = IF accepted THEN updated ELSE progressMap
        /\ applied' = IF accepted THEN [applied EXCEPT ![kbName] = msg.data]
                       ELSE applied
        /\ localStorage' =
             IF accepted
             THEN PersistEffect(SetItem(localStorage, Stringify(updated), storageOk),
                                updated, storageOk)
             ELSE localStorage
        /\ last' = [Step("message") EXCEPT
                      !.kb = kbName, !.msg = msg, !.ragInitialized = rag,
                      !.prevKind = KindOf(progressMap[kbName]),
                      !.accepted = accepted, !.wrote = accepted /\ storageOk]
  /\ UNCHANGED <<hookVars, removed>>
  /\ UNCHANGED <<mounted, kbs, loading, storageOk, registryVars, pendingFetches,
                 clockVars>>

\* how the POST to /progress/clear ends: a success status, another status
\* (the code does not look at it), or a rejected fetch (caught and logged)
PurgeOutcomes == {"ok", "status", "network"}

\* clearProgress(kbName): the state update, then the backend purge whose
\* outcome is only logged
ClearProgress(kbName, outcome) ==
  /\ mounted
  /\ \E i \in 1..Len(kbs) : kbs[i].name = kbName
  /\ LET updated == DeleteRecord(progressMap, kbName)
     IN /\ progressMap' = updated
        /\ applied' = [applied EXCEPT ![kbName] = Absent]
        /\ localStorage' =
             PersistEffect(SetItem(localStorage, Stringify(updated), storageOk),
                           updated, storageOk)
  /\ last' = [Step("clearProgress") EXCEPT
                !.kb = kbName, !.purge = outcome, !.wrote = storageOk,
                !.prevKind = KindOf(progressMap[kbName])]
  /\ UNCHANGED <<hookVars, removed>>
  /\ UNCHANGED <<mounted, kbs, loading, storageOk, registryVars, pendingFetches,
                 clockVars>>

ClearAllStuckProgress ==
  /\ mounted
  /\ LET cleaned == OnlyFinished(progressMap)
     IN /\ progressMap' = cleaned
        /\ applied' = [n \in Names |->
                         IF cleaned[n] = progressMap[n] THEN applied[n] ELSE Absent]
        /\ localStorage' =
             PersistEffect(SetItem(localStorage, Stringify(cleaned), storageOk),
                           cleaned, storageOk)
  /\ last' = [Step("clearAllStuck") EXCEPT !.wrote = storageOk, !.saved = progressMap]
  /\ UNCHANGED <<hookVars, removed>>
  /\ UNCHANGED <<mounted, kbs, loading, storageOk, registryVars, pendingFetches,
                 clockVars>>

\* handleCreate after /api/v1/knowledge/create answered ok with result.name:
\* setKbs (add if not there), setProgressMap (initializing); the sync effect
\* runs if kbs changed, the persist effect because progressMap did
HandleCreate(name) ==
  /\ mounted
  /\ LET newKb == [name |-> name, rag_initialized |-> FALSE]
         list == AddKb(kbs, newKb)
         updated == PutRecord(progressMap, name, InitialProgress(now))
     IN /\ Len(list) <= MaxKbs
        /\ kbs' = list
        /\ progressMap' = updated
        /\ applied' = [applied EXCEPT ![name] = Absent]
        /\ localStorage' = PersistEffect(localStorage, updated, storageOk)
        /\ LET step == [Step("create") EXCEPT !.kb = name, !.wrote = storageOk]
           IN IF list # kbs
              THEN RunSync(step, list, loading)
              ELSE /\ UNCHANGED registryVars
                   /\ last' = step
  /\ removed' = removed \ {name}
  /\ UNCHANGED hookVars
  /\ UNCHANGED <<mounted, loading, storageOk, pendingFetches, clockVars>>

\* handleCreate when /api/v1/knowledge/create answers with a status that is
\* not ok or the fetch is rejected: the catch alerts, no state of the page
\* that the model holds is set
HandleCreateFailed(name) ==
  /\ mounted
  /\ last' = [Step("createFailed") EXCEPT !.kb = name]
  /\ UNCHANGED <<hookVars, removed>>
  /\ UNCHANGED <<mounted, kbs, loading, storeVars, storageOk, registryVars,
                 pendingFetches, clockVars>>

\* handleDelete(name), confirmed by the user, once the DELETE answered.  On
\* res.ok: clearProgress(name) up to its first await (the state update),
\* then fetchKnowledgeBases() (setLoading(true)); the purge request of
\* clearProgress only logs.  Otherwise the catch alerts and nothing changes.
HandleDelete(name, outcome) ==
  /\ mounted
  /\ \E i \in 1..Len(kbs) : kbs[i].name = name
  /\ pendingFetches < MaxFetches
  /\ LET step == [Step("delete") EXCEPT
                    !.kb = name, !.outcome = outcome,
                    !.wrote = outcome = "ok" /\ storageOk,
                    !.prevKind = KindOf(progressMap[name])]
         updated == DeleteRecord(progressMap, name)
     IN IF outcome = "ok"
        THEN /\ removed' = removed \cup {name}
             /\ progressMap' = updated
             /\ applied' = [applied EXCEPT ![name] = Absent]
             /\ localStorage' =
                  PersistEffect(SetItem(localStorage, Stringify(updated), storageOk),
                                updated, storageOk)
             /\ pendingFetches' = pendingFetches + 1
             /\ loading' = TRUE
             /\ IF loading THEN /\ UNCHANGED registryVars
                                /\ last' = step
                ELSE RunSync(step, kbs, TRUE)
        ELSE /\ last' = step
             /\ UNCHANGED <<removed, storeVars, pendingFetches, loading, registryVars>>
  /\ UNCHANGED hookVars
  /\ UNCHANGED <<mounted, kbs, storageOk, clockVars>>

\* the clock advances
Tick(d) ==
  /\ ticks < MaxTicks
  /\ ticks' = ticks + 1
  /\ now' = now + d
  /\ last' = Step("tick")
  /\ UNCHANGED <<hookVars, removed>>
  /\ UNCHANGED <<mounted, kbs, loading, storeVars, storageOk, registryVars,
                 pendingFetches>>

\* the storage quota fills up, or frees again
StorageChange ==
  /\ storageOk' = ~storageOk
  /\ last' = Step("storage")
  /\ UNCHANGED <<hookVars, removed>>
  /\ UNCHANGED <<mounted, kbs, loading, storeVars, registryVars, pendingFetches,
                 clockVars>>

TickSteps == {1, thirtyMinutes}

\* ------------------------------------------------------- session actions
pageVars == <<mounted, kbs, loading, progressMap, localStorage, applied,
              wsConnectionsRef, kbsNamesRef, sockets, pendingFetches, removed, prevRun>>

\* a fetch of the hook that awaits its response: the call's number, what it
\* asks for, and the session and arguments its closure holds
Request(n, kind, captured, input) ==
  [n |-> n, kind |-> kind, session |-> captured, input |-> input, id |-> captured.id]

saveVars == <<timers, lastSave, clearedAt>>

\* A component using the hook mounts: the state hooks' initial values and
\* the mount effect (autoLoad: loadActiveSession(), else setIsLoading(false))
UseSolverSession(opts) ==
  /\ ~hookMounted
  /\ calls < MaxCalls
  /\ hookMounted' = TRUE
  /\ options' = opts
  /\ session' = NoSession
  /\ error' = ""
  /\ lastMessagesRef' = EmptyRef
  /\ IF opts.autoLoad
     THEN /\ sessionIsLoading' = TRUE
          /\ requests' = requests \cup {Request(calls + 1, "load", NoSession, NoInput)}
          /\ calls' = calls + 1
     ELSE /\ sessionIsLoading' = FALSE
          /\ UNCHANGED <<requests, calls>>
  /\ unsent' = {}
  /\ last' = [Step("useSolverSession") EXCEPT !.request = IF opts.autoLoad THEN calls + 1 ELSE 0]
  /\ UNCHANGED <<sessionCache, server, pageVars, storageOk, clockVars>>
  /\ UNCHANGED saveVars

\* loadActiveSession() up to its fetch: setIsLoading(true), setError(null)
LoadActiveSession ==
  /\ hookMounted
  /\ calls < MaxCalls
  /\ sessionIsLoading' = TRUE
  /\ error' = ""
  /\ requests' = requests \cup {Request(calls + 1, "load", NoSession, NoInput)}
  /\ calls' = calls + 1
  /\ last' = [Step("loadActiveSession") EXCEPT !.request = calls + 1]
  /\ UNCHANGED <<hookMounted, options, session, lastMessagesRef, sessionCache, server,
                 unsent, pageVars, storageOk, clockVars>>
  /\ UNCHANGED saveVars

\* loadActiveSession() from the answer of its fetch on, and the render after it
LoadDone(r, outcome) ==
  /\ r.kind = "load"
  /\ LET data == IF outcome = "ok" THEN server ELSE NoSession
         cached == IF data.present THEN NoSession ELSE LoadFromCache(sessionCache)
         returned == IF data.present THEN data ELSE cached
         saved == IF data.present THEN SaveToCache(sessionCache, data, storageOk)
                  ELSE [item |-> sessionCache, threw |-> FALSE]
         shown == IF returned.present THEN returned
                  ELSE IF outcome = "network" THEN session
                  ELSE NoSession
         ref == IF returned.present THEN RefOf(returned.messages) ELSE lastMessagesRef
         effect == AutoSaveEffect(options, shown, saved.item, ref, storageOk)
     IN /\ session' = shown
        /\ sessionCache' = effect.item
        /\ lastMessagesRef' = effect.ref
        /\ unsent' = IF shown = session THEN unsent ELSE {}
        /\ last' = [Step("loadDone") EXCEPT
                      !.outcome = outcome, !.request = r.n, !.captured = session,
                      !.result = returned, !.threw = saved.threw \/ effect.threw]
  /\ error' = IF outcome = "network" THEN "Failed to load session" ELSE error
  /\ sessionIsLoading' = FALSE
  /\ requests' = requests \ {r}
  /\ UNCHANGED <<hookMounted, options, server, calls, pageVars, storageOk, clockVars>>
  /\ UNCHANGED saveVars

\* addMessage(role, content, outputDir) up to its fetch; without a session
\* it warns and returns null
AddMessage(input) ==
  /\ hookMounted
  /\ calls < MaxCalls
  /\ calls' = calls + 1
  /\ requests' = IF HasActiveSession(session)
                 THEN requests \cup {Request(calls + 1, "add", session, input)}
                 ELSE requests
  /\ last' = [Step("addMessage") EXCEPT
                !.request = IF HasActiveSession(session) THEN calls + 1 ELSE 0,
                !.captured = session, !.input = input, !.result = NoSession]
  /\ UNCHANGED <<hookMounted, options, session, sessionIsLoading, error,
                 lastMessagesRef, sessionCache, server, unsent, pageVars, storageOk,
                 clockVars>>
  /\ UNCHANGED saveVars

\* addMessage from the answer of its fetch on, and the render after it.  The
\* backend answers ok only for the session it holds.
AddDone(r, outcome) ==
  /\ r.kind = "add"
  /\ outcome = "ok" => (server.present /\ server.id = r.session.id)
  /\ LET data == ServerAppend(server, r.input.role, r.input.content,
                              r.input.outputDir, TimeAt(now))
         updatedSession == OptimisticUpdate(r.session, r.input.role, r.input.content,
                                            r.input.outputDir, TimeAt(now))
         shown == AddResult(outcome, data, updatedSession)
         saved == SaveToCache(sessionCache, shown, storageOk)
         ref == IF outcome = "ok" THEN RefOf(data.messages) ELSE lastMessagesRef
         effect == AutoSaveEffect(options, shown, saved.item, ref, storageOk)
     IN /\ server' = IF outcome = "ok" THEN data ELSE server
        /\ session' = shown
        /\ sessionCache' = effect.item
        /\ lastMessagesRef' = effect.ref
        /\ unsent' = IF outcome = "ok" THEN {} ELSE unsent \cup {r.input}
        /\ last' = [Step("addDone") EXCEPT
                      !.outcome = outcome, !.request = r.n, !.captured = r.session,
                      !.input = r.input, !.result = shown, !.threw = saved.threw \/ effect.threw]
  /\ requests' = requests \ {r}
  /\ UNCHANGED <<hookMounted, options, sessionIsLoading, error, calls, pageVars,
                 storageOk, clockVars>>
  /\ UNCHANGED saveVars

sessionVars == <<session, sessionIsLoading, error, lastMessagesRef, sessionCache>>

\* timers of the debounced save for the session of that id, marked in the
\* history as outliving it
Doom(pending, sessionId) ==
  {IF tm.args.id = sessionId THEN [tm EXCEPT !.doomed = TRUE] ELSE tm : tm \in pending}

\* createSession(knowledgeBase) up to its fetch
CreateSession ==
  /\ hookMounted
  /\ calls < MaxCalls
  /\ calls' = calls + 1
  /\ requests' = requests \cup {Request(calls + 1, "create", session, NoInput)}
  /\ last' = [Step("createSession") EXCEPT !.request = calls + 1, !.captured = session]
  /\ UNCHANGED <<hookMounted, options, sessionVars, server, unsent, saveVars, pageVars,
                 storageOk, clockVars>>

\* createSession from the answer of its fetch on, and the render after it
CreateDone(r, outcome) ==
  /\ r.kind = "create"
  /\ LET data == ServerCreate(r.n)
         ok == outcome = "ok"
         written == IF ok THEN SaveToCache(sessionCache, data, storageOk)
                    ELSE [item |-> sessionCache, threw |-> FALSE]
         shown == IF ok THEN data ELSE session
         ref == IF ok THEN RefOf(data.messages) ELSE lastMessagesRef
         effect == AutoSaveEffect(options, shown, written.item, ref, storageOk)
     IN /\ server' = IF ok THEN data ELSE server
        /\ session' = shown
        /\ sessionCache' = effect.item
        /\ lastMessagesRef' = effect.ref
        /\ error' = IF ok THEN error ELSE "Failed to create session"
        /\ unsent' = IF ok THEN {} ELSE unsent
        /\ last' = [Step("createDone") EXCEPT
                      !.outcome = outcome, !.request = r.n, !.captured = session,
                      !.result = IF ok THEN data ELSE NoSession,
                      !.threw = written.threw \/ effect.threw]
  /\ requests' = requests \ {r}
  /\ UNCHANGED <<hookMounted, options, sessionIsLoading, calls, saveVars, pageVars,
                 storageOk, clockVars>>

\* clearSession(): clearCache(), setSession(null), lastMessagesRef = ""
ClearSession ==
  /\ hookMounted
  /\ calls < MaxCalls
  /\ calls' = calls + 1
  /\ sessionCache' = ClearCache(sessionCache)
  /\ session' = NoSession
  /\ lastMessagesRef' = EmptyRef
  /\ unsent' = {}
  /\ timers' = IF session.present THEN Doom(timers, session.id) ELSE timers
  /\ clearedAt' = calls + 1
  /\ last' = [Step("clearSession") EXCEPT !.request = calls + 1, !.captured = session]
  /\ UNCHANGED <<hookMounted, options, sessionIsLoading, error, server, requests,
                 lastSave, pageVars, storageOk, clockVars>>

\* deleteSession(sessionId) up to its fetch
DeleteSession(sessionId) ==
  /\ hookMounted
  /\ calls < MaxCalls
  /\ calls' = calls + 1
  /\ requests' = requests \cup
       {[Request(calls + 1, "delete", session, NoInput) EXCEPT !.id = sessionId]}
  /\ last' = [Step("deleteSession") EXCEPT
                !.request = calls + 1, !.captured = session, !.id = sessionId]
  /\ UNCHANGED <<hookMounted, options, sessionVars, server, unsent, saveVars, pageVars,
                 storageOk, clockVars>>

\* deleteSession from the answer of its fetch on, and the render after it
DeleteDone(r, outcome) ==
  /\ r.kind = "delete"
  /\ LET clears == DeleteClears(outcome, r.session, r.id)
     IN /\ sessionCache' = IF clears THEN ClearCache(sessionCache) ELSE sessionCache
        /\ session' = IF clears THEN NoSession ELSE session
        /\ unsent' = IF clears THEN {} ELSE unsent
        /\ timers' = IF outcome = "ok" THEN Doom(timers, r.id) ELSE timers
  /\ server' = IF outcome = "ok" THEN ServerDelete(server, r.id) ELSE server
  /\ last' = [Step("deleteDone") EXCEPT
                !.outcome = outcome, !.request = r.n, !.captured = r.session,
                !.id = r.id, !.returned = (outcome = "ok")]
  /\ requests' = requests \ {r}
  /\ UNCHANGED <<hookMounted, options, sessionIsLoading, error, lastMessagesRef, calls,
                 lastSave, clearedAt, pageVars, storageOk, clockVars>>

\* updateTokenStats(stats) up to its fetch; without a session it returns
UpdateTokenStats ==
  /\ hookMounted
  /\ calls < MaxCalls
  /\ calls' = calls + 1
  /\ requests' = IF HasActiveSession(session)
                 THEN requests \cup {Request(calls + 1, "stats", session, NoInput)}
                 ELSE requests
  /\ last' = [Step("updateTokenStats") EXCEPT
                !.request = IF HasActiveSession(session) THEN calls + 1 ELSE 0,
                !.captured = session]
  /\ UNCHANGED <<hookMounted, options, sessionVars, server, unsent, saveVars, pageVars,
                 storageOk, clockVars>>

\* updateTokenStats when its fetch ends: nothing is read of the answer
StatsDone(r, outcome) ==
  /\ r.kind = "stats"
  /\ requests' = requests \ {r}
  /\ last' = [Step("statsDone") EXCEPT
                !.outcome = outcome, !.request = r.n, !.captured = r.session,
                !.threw = UpdateTokenStatsThrows(outcome)]
  /\ UNCHANGED <<hookMounted, options, sessionVars, server, calls, unsent, saveVars,
                 pageVars, storageOk, clockVars>>

\* the setSession the hook returns, called by its user, and the render
\* after it
SetSession(s) ==
  /\ hookMounted
  /\ calls < MaxCalls
  /\ calls' = calls + 1
  /\ LET effect == AutoSaveEffect(options, s, sessionCache, lastMessagesRef, storageOk)
     IN /\ session' = s
        /\ sessionCache' = effect.item
        /\ lastMessagesRef' = effect.ref
        /\ last' = [Step("setSession") EXCEPT
                      !.request = calls + 1, !.captured = session, !.result = s,
                      !.threw = effect.threw]
  /\ unsent' = {}
  /\ UNCHANGED <<hookMounted, options, sessionIsLoading, error, server, requests,
                 saveVars, pageVars, storageOk, clockVars>>

\* debouncedSave(sessionToSave): the function debounce returned, memoized
\* on [debounceMs]
DebouncedSave(args) ==
  /\ hookMounted
  /\ calls < MaxCalls
  /\ calls' = calls + 1
  /\ timers' = Debounce(timers, args, now, options.debounceMs)
  /\ LET follows == lastSave.has /\ timers # {}
     IN lastSave' = [has |-> TRUE, at |-> now, args |-> args,
                     burst |-> IF follows THEN lastSave.burst + 1 ELSE 1,
                     writes |-> IF follows THEN lastSave.writes ELSE 0]
  /\ last' = [Step("debouncedSave") EXCEPT !.request = calls + 1, !.args = args]
  /\ UNCHANGED <<hookMounted, options, sessionVars, server, requests, unsent,
                 clearedAt, pageVars, storageOk, clockVars>>

\* the timeout runs func(...args): without an id nothing, else the PUT of
\* title and knowledge_base, whose failure is logged
TimerFires(tm) ==
  /\ tm \in timers
  /\ now >= tm.due
  /\ timers' = timers \ {tm}
  /\ lastSave' = [lastSave EXCEPT !.writes = IF tm.args.id # "" THEN @ + 1 ELSE @]
  /\ last' = [Step("timerFires") EXCEPT
                !.args = tm.args, !.written = (tm.args.id # ""),
                !.doomed = tm.doomed, !.due = tm.due]
  /\ UNCHANGED <<hookMounted, options, sessionVars, server, requests, calls, unsent,
                 clearedAt, pageVars, storageOk, clockVars>>

\* time passes while the hook is in use
Elapse(d) ==
  /\ hookMounted
  /\ ticks < MaxWaits
  /\ ticks' = ticks + 1
  /\ now' = now + d
  /\ last' = Step("elapse")
  /\ UNCHANGED <<hookMounted, options, sessionVars, server, requests, calls, unsent,
                 saveVars, pageVars, storageOk>>

\* -------------------------------------------------------- specifications
\* Spec: one page life with every progress message the backend may push.
\* The listing names both KBs, "b" already initialized or not.
StoreListings ==
  {<<[name |-> "a", rag_initialized |-> FALSE], [name |-> "b", rag_initialized |-> rg]>> :
     rg \in BOOLEAN}

InitStore == Init /\ localStorage = Null

Next ==
  \/ Mount
  \/ \E data \in StoreListings : FetchOk(data)
  \/ FetchFail
  \/ \E h \in 1..Len(sockets) : SocketOpen(h)
  \/ \E h \in 1..Len(sockets) : SocketClosed(h)
  \/ \E h \in 1..Len(sockets) : \E msg \in Messages(now) : OnMessage(h, msg)
  \/ \E n \in Names : \E outcome \in PurgeOutcomes : ClearProgress(n, outcome)
  \/ ClearAllStuckProgress

Spec == InitStore /\ [][Next]_vars

\* SpecLoad: page lives over a store that an earlier life may have filled,
\* with the clock advancing between them; few messages.
LoadListings == {<<[name |-> "a", rag_initialized |-> FALSE]>>}

LoadMessages(t) ==
  {ProgressMsg([stage |-> "processing", timestamp |-> TimeAt(t), percent |-> 40]),
   ProgressMsg([stage |-> "completed", timestamp |-> NoTimestamp, percent |-> 100])}

NextLoad ==
  \/ Mount
  \/ Unmount
  \/ \E data \in LoadListings : FetchOk(data)
  \/ FetchFail
  \/ \E h \in 1..Len(sockets) : SocketOpen(h)
  \/ \E h \in 1..Len(sockets) : SocketClosed(h)
  \/ \E h \in 1..Len(sockets) : \E msg \in LoadMessages(now) : OnMessage(h, msg)
  \/ \E d \in TickSteps : Tick(d)

SpecLoad == Init /\ [][NextLoad]_vars

\* SpecMirror: every operation that changes progressMap, with the quota
\* failing and recovering.
MirrorItems ==
  {Null,
   Item(Stringify([n \in Names |->
     IF n = "a"
     THEN [stage |-> "processing", timestamp |-> TimeAt(StartTime - thirtyMinutes),
           percent |-> 40]
     ELSE IF n = "b"
     THEN [stage |-> "completed", timestamp |-> NoTimestamp, percent |-> 100]
     ELSE Absent]))}

InitMirror == Init /\ localStorage \in MirrorItems

NextMirror ==
  \/ Mount
  \/ \E data \in StoreListings : FetchOk(data)
  \/ \E h \in 1..Len(sockets) : SocketOpen(h)
  \/ \E h \in 1..Len(sockets) : \E msg \in LoadMessages(now) : OnMessage(h, msg)
  \/ \E n \in Names : \E outcome \in PurgeOutcomes : ClearProgress(n, outcome)
  \/ ClearAllStuckProgress
  \/ \E n \in PlainNames : HandleCreate(n)
  \/ StorageChange

SpecMirror == InitMirror /\ [][NextMirror]_vars

\* SpecRegistry: every listing of up to MaxKbs names (a name may repeat),
\* refreshes, transport failures, unmount and remount.  What the
\* registry does never reads rag_initialized, so no listed KB is initialized.
RegistryListings ==
  {l \in Listings : \A i \in 1..Len(l) : ~l[i].rag_initialized}

NextRegistry ==
  \/ Mount
  \/ Unmount
  \/ FetchStart
  \/ \E data \in RegistryListings : FetchOk(data)
  \/ FetchFail
  \/ \E h \in 1..Len(sockets) : SocketOpen(h)
  \/ \E h \in 1..Len(sockets) : SocketClosed(h)

SpecRegistry == InitStore /\ [][NextRegistry]_vars

\* SpecNames: listings whose names may hold a comma, with refreshes and
\* transport failures.
NamesListings ==
  {[i \in 1..Len(names) |-> [name |-> names[i], rag_initialized |-> FALSE]] :
     names \in {<<>>, <<"a">>, <<"a", "b">>, <<"b", "a">>, <<"a,b">>, <<"a,b", "a">>}}

NextNames ==
  \/ Mount
  \/ FetchStart
  \/ \E data \in NamesListings : FetchOk(data)
  \/ FetchFail
  \/ \E h \in 1..Len(sockets) : SocketOpen(h)
  \/ \E h \in 1..Len(sockets) : SocketClosed(h)

SpecNames == InitStore /\ [][NextNames]_vars

\* SpecFlag: refreshes that list the same KB as initialized or not, while
\* its socket receives fresh, old and finishing messages.
FlagListings ==
  {<<[name |-> "a", rag_initialized |-> rg]>> : rg \in BOOLEAN}

FlagMessages(t) ==
  {ProgressMsg([stage |-> "processing_file", timestamp |-> TimeAt(t - age),
                percent |-> 40]) : age \in {0, fiveMinutes + 1}}
    \cup {ProgressMsg([stage |-> "completed", timestamp |-> TimeAt(t),
                       percent |-> 100])}

NextFlag ==
  \/ Mount
  \/ FetchStart
  \/ \E data \in FlagListings : FetchOk(data)
  \/ FetchFail
  \/ \E h \in 1..Len(sockets) : SocketOpen(h)
  \/ \E h \in 1..Len(sockets) : SocketClosed(h)
  \/ \E h \in 1..Len(sockets) : \E msg \in FlagMessages(now) : OnMessage(h, msg)

SpecFlag == InitStore /\ [][NextFlag]_vars

\* SpecDelete: KBs a and b are deleted from the page while their channels
\* deliver messages; every listing is what the backend holds when it answers.
DeleteListing ==
  SelectSeq(<<[name |-> "a", rag_initialized |-> FALSE],
              [name |-> "b", rag_initialized |-> FALSE]>>,
            LAMBDA kb : kb.name \notin removed)

NextDelete ==
  \/ Mount
  \/ FetchStart
  \/ FetchOk(DeleteListing)
  \/ \E h \in 1..Len(sockets) : SocketOpen(h)
  \/ \E h \in 1..Len(sockets) : \E msg \in LoadMessages(now) : OnMessage(h, msg)
  \/ \E n \in PlainNames : \E outcome \in Outcomes : HandleDelete(n, outcome)

SpecDelete == InitStore /\ [][NextDelete]_vars

\* SpecCreate: KBs are created from the page while listings are asked for
\* and arrive, and sockets open and fail.
CreateListings ==
  {[i \in 1..Len(names) |-> [name |-> names[i], rag_initialized |-> FALSE]] :
     names \in {<<>>, <<"a">>, <<"b">>, <<"a", "b">>}}

NextCreate ==
  \/ Mount
  \/ FetchStart
  \/ \E data \in CreateListings : FetchOk(data)
  \/ \E h \in 1..Len(sockets) : SocketOpen(h)
  \/ \E h \in 1..Len(sockets) : SocketClosed(h)
  \/ \E n \in PlainNames : HandleCreate(n)
  \/ \E n \in PlainNames : HandleCreateFailed(n)

SpecCreate == InitStore /\ [][NextCreate]_vars

\* SpecSession: one life of the session hook over a backend that holds a
\* session or none and a store an earlier life may have written.
FirstMessage == SolverMessage("user", "p", NoDir, TimeAt(StartTime - fiveMinutes))
OfflineMessage == SolverMessage("assistant", "o", NoDir, TimeAt(StartTime - 1))

ServerSessions == {NoSession, SolverSession("s1", <<FirstMessage>>, 1)}

CachedItems ==
  {NoItem, SessionItem(CorruptText),
   SessionItem(StringifySession(SolverSession("s1", <<FirstMessage, OfflineMessage>>, 2)))}

AddInputs ==
  {[role |-> "user", content |-> "q", outputDir |-> NoDir],
   [role |-> "assistant", content |-> "r", outputDir |-> "/out"]}

OptionSets == {DefaultOptions, [DefaultOptions EXCEPT !.autoSave = FALSE]}

InitSession ==
  /\ InitPage
  /\ localStorage = Null
  /\ InitHook
  /\ sessionCache \in CachedItems
  /\ server \in ServerSessions

NextSession ==
  \/ \E opts \in OptionSets : UseSolverSession(opts)
  \/ LoadActiveSession
  \/ \E r \in requests : \E outcome \in Outcomes : LoadDone(r, outcome)
  \/ \E input \in AddInputs : AddMessage(input)
  \/ \E r \in requests : \E outcome \in Outcomes : AddDone(r, outcome)

SpecSession == InitSession /\ [][NextSession]_vars

\* SpecStorage: the page and the hook side by side over a store whose quota
\* fills up and frees again.
StorageOptions == {DefaultOptions}
StorageInputs == {[role |-> "user", content |-> "q", outputDir |-> NoDir]}

InitStorage ==
  /\ InitSession
  /\ sessionCache = NoItem
  /\ server.present

NextStorage ==
  \/ Mount
  \/ \E data \in LoadListings : FetchOk(data)
  \/ \E h \in 1..Len(sockets) : SocketOpen(h)
  \/ \E h \in 1..Len(sockets) : \E msg \in LoadMessages(now) : OnMessage(h, msg)
  \/ \E n \in Names : \E outcome \in PurgeOutcomes : ClearProgress(n, outcome)
  \/ StorageChange
  \/ \E opts \in StorageOptions : UseSolverSession(opts)
  \/ \E r \in requests : \E outcome \in Outcomes : LoadDone(r, outcome)
  \/ \E input \in StorageInputs : AddMessage(input)
  \/ \E r \in requests : \E outcome \in Outcomes : AddDone(r, outcome)

SpecStorage == InitStorage /\ [][NextStorage]_vars

\* SpecDebounce: one life of the hook whose user calls the debounced save,
\* clears and deletes while the clock runs.
SaveInputs == {SessionToSave("s1", "t1", "a"), SessionToSave("s1", "t2", "b")}

WaitSteps == {DefaultDebounceMs - 1, 1}

DebounceOptions == {DefaultOptions, [DefaultOptions EXCEPT !.autoLoad = FALSE]}

DeleteIds == {"s1", "s0"}

InitDebounce ==
  /\ InitSession
  /\ sessionCache = NoItem
  /\ server.present

NextDebounce ==
  \/ \E opts \in DebounceOptions : UseSolverSession(opts)
  \/ \E r \in requests : \E outcome \in Outcomes : LoadDone(r, outcome)
  \/ \E args \in SaveInputs : DebouncedSave(args)
  \/ \E tm \in timers : TimerFires(tm)
  \/ \E d \in WaitSteps : Elapse(d)
  \/ ClearSession
  \/ \E id \in DeleteIds : DeleteSession(id)
  \/ \E r \in requests : \E outcome \in Outcomes : DeleteDone(r, outcome)

SpecDebounce == InitDebounce /\ [][NextDebounce]_vars

\* SpecLifecycle: one life of the hook whose user calls every function it
\* returns, over the backends and stores of SpecSession.
SetInputs == {SolverSession("s1", <<FirstMessage>>, 1), SolverSession("s9", <<>>, 0)}

LifecycleInputs == {[role |-> "user", content |-> "q", outputDir |-> NoDir]}

NextLifecycle ==
  \/ \E opts \in OptionSets : UseSolverSession(opts)
  \/ LoadActiveSession
  \/ \E r \in requests : \E outcome \in Outcomes : LoadDone(r, outcome)
  \/ \E input \in LifecycleInputs : AddMessage(input)
  \/ \E r \in requests : \E outcome \in Outcomes : AddDone(r, outcome)
  \/ CreateSession
  \/ \E r \in requests : \E outcome \in Outcomes : CreateDone(r, outcome)
  \/ ClearSession
  \/ \E id \in DeleteIds : DeleteSession(id)
  \/ \E r \in requests : \E outcome \in Outcomes : DeleteDone(r, outcome)
  \/ UpdateTokenStats
  \/ \E r \in requests : \E outcome \in Outcomes : StatsDone(r, outcome)
  \/ \E s \in SetInputs : SetSession(s)

SpecLifecycle == InitSession /\ [][NextLifecycle]_vars

\* ----------------------------------------------------------------- claims
\* vocabulary of the claims
ProgressArrived(step) == step.op = "message" /\ IsProgress(step.msg)

InProgress(data) == data.stage \in NonTerminalStages

Finished(data) == data.stage \in TerminalStages

\* the payload's time is missing or unparsable
NoUsableTime(data) == data.timestamp.kind # "time"

OlderThan(data, t, window) ==
  data.timestamp.kind = "time" /\ t - data.timestamp.ms > window

LiveSockets(n) == {h \in 1..Len(sockets) : sockets[h].name = n /\ IsLive(sockets[h])}

\* C1 as stated: once a completed or error record is stored for an entity, no
\* later message with a non-terminal stage replaces it.
C1_TerminalSticky ==
  [][(/\ ProgressArrived(last')
      /\ InProgress(last'.msg.data)
      /\ Finished(progressMap[last'.kb]))
     => progressMap'[last'.kb] = progressMap[last'.kb]]_vars

\* C1 as amended: a stored completed or error record survives a later
\* non-terminal message only when the channel was opened for a KB listed as
\* initialized and the message has no usable time or is older than five
\* minutes; every other non-terminal message replaces the record.
C1_TerminalKeptOnlyFromStale ==
  [][(/\ ProgressArrived(last')
      /\ InProgress(last'.msg.data)
      /\ Finished(progressMap[last'.kb]))
     => IF /\ last'.ragInitialized
           /\ \/ NoUsableTime(last'.msg.data)
              \/ OlderThan(last'.msg.data, now, fiveMinutes)
        THEN progressMap'[last'.kb] = progressMap[last'.kb]
        ELSE progressMap'[last'.kb] = last'.msg.data]_vars

\* a finished record has just been replaced by an in-progress one
C1_Witness ==
  /\ ProgressArrived(last)
  /\ last.prevKind = "terminal"
  /\ InProgress(last.msg.data)
  /\ last.accepted
  /\ progressMap[last.kb] = last.msg.data

\* C2: on a channel whose KB is known initialized, a non-terminal message
\* with a time more than five minutes before now is rejected and neither
\* progressMap nor the stored item changes.
C2_StaleAfterReady ==
  [][(/\ ProgressArrived(last')
      /\ last'.ragInitialized
      /\ InProgress(last'.msg.data)
      /\ OlderThan(last'.msg.data, now, fiveMinutes))
     => /\ ~last'.accepted
        /\ progressMap' = progressMap
        /\ localStorage' = localStorage]_vars

C2_Witness ==
  /\ ProgressArrived(last)
  /\ last.ragInitialized
  /\ InProgress(last.msg.data)
  /\ OlderThan(last.msg.data, now, fiveMinutes)
  /\ ~last.accepted
  /\ \E n \in Names : progressMap[n] # Absent

\* C3 as stated: with no record stored for the entity, every well-formed
\* progress message is accepted and stored.
C3_AbsentAcceptsAll ==
  [][(ProgressArrived(last') /\ progressMap[last'.kb] = Absent)
     => progressMap'[last'.kb] = last'.msg.data]_vars

\* C3 as amended: with no record stored for the entity, a well-formed progress
\* message is stored unless the channel was opened for a KB listed as
\* initialized, the stage is non-terminal and the time is missing, unparsable
\* or more than five minutes old; then nothing is stored.
C3_AbsentStillStaleChecked ==
  [][(ProgressArrived(last') /\ progressMap[last'.kb] = Absent)
     => IF /\ last'.ragInitialized
           /\ InProgress(last'.msg.data)
           /\ \/ NoUsableTime(last'.msg.data)
              \/ OlderThan(last'.msg.data, now, fiveMinutes)
        THEN progressMap'[last'.kb] = Absent
        ELSE progressMap'[last'.kb] = last'.msg.data]_vars

\* a message for an entity without a record was dropped
C3_Witness ==
  /\ ProgressArrived(last)
  /\ last.prevKind = "absent"
  /\ ~last.accepted
  /\ progressMap[last.kb] = Absent

\* C4 as stated: a record stored from an accepted message carries the clock
\* at receipt as its timestamp.
C4_StampedOnReceipt ==
  [][(ProgressArrived(last') /\ last'.accepted)
     => progressMap'[last'.kb].timestamp = TimeAt(now)]_vars

\* C4 as amended: a record stored from an accepted message is the payload's
\* data as received, in progressMap and in the stored item: its timestamp is
\* the payload's, and is missing when the payload has none.
C4_StoredAsReceived ==
  [][(ProgressArrived(last') /\ last'.accepted)
     => /\ progressMap'[last'.kb] = last'.msg.data
        /\ localStorage'.present
        /\ Parse(localStorage'.text)[last'.kb] = last'.msg.data]_vars

\* a record without any timestamp has just been stored
C4_Witness ==
  /\ ProgressArrived(last)
  /\ last.accepted
  /\ last.msg.data.timestamp = NoTimestamp
  /\ progressMap[last.kb].timestamp = NoTimestamp

\* C5: after each operation that changes progressMap (accepted message,
\* clearProgress, clearAllStuckProgress, create, restore on mount), if the
\* store took the write, the stored item is the whole of progressMap.
C5_WriteThrough ==
  (/\ last.op \in {"message", "clearProgress", "clearAllStuck", "create", "mount"}
   /\ last.wrote)
  => /\ localStorage.present
     /\ localStorage.text = Stringify(progressMap)
     /\ Parse(localStorage.text) = progressMap

\* create has just added a second record, and the item holds both
C5_Witness ==
  /\ last.op = "create"
  /\ last.wrote
  /\ \A n \in PlainNames : progressMap[n] # Absent
  /\ \E n \in PlainNames : progressMap[n].stage # "initializing"

\* C6: after the restore on mount, every stored non-terminal record with a
\* time more than thirty minutes before now is in neither progressMap nor
\* the rewritten item, and every stored completed or error record is in both.
C6_SanitizeOnLoad ==
  last.op = "mount"
  => \A n \in Names :
       /\ (InProgress(last.saved[n]) /\ OlderThan(last.saved[n], now, thirtyMinutes))
          => /\ progressMap[n] = Absent
             /\ Parse(localStorage.text)[n] = Absent
       /\ Finished(last.saved[n])
          => /\ progressMap[n] = last.saved[n]
             /\ Parse(localStorage.text)[n] = last.saved[n]

\* one old unfinished record was evicted, one old finished record kept
C6_Witness ==
  /\ last.op = "mount"
  /\ \E n \in Names :
       /\ InProgress(last.saved[n])
       /\ OlderThan(last.saved[n], now, thirtyMinutes)
       /\ progressMap[n] = Absent
  /\ \E n \in Names :
       /\ Finished(last.saved[n])
       /\ OlderThan(last.saved[n], now, thirtyMinutes)
       /\ progressMap[n] = last.saved[n]

\* C7: the restore on mount drops a stored record without a timestamp if and
\* only if its stage is non-terminal.
C7_UntimedKeptIffTerminal ==
  last.op = "mount"
  => \A n \in Names :
       (last.saved[n] # Absent /\ last.saved[n].timestamp = NoTimestamp)
       => IF Finished(last.saved[n])
          THEN progressMap[n] = last.saved[n]
          ELSE progressMap[n] = Absent

C7_Witness ==
  /\ last.op = "mount"
  /\ \E n \in Names :
       /\ InProgress(last.saved[n])
       /\ last.saved[n].timestamp = NoTimestamp
       /\ progressMap[n] = Absent
  /\ \E n \in Names :
       /\ Finished(last.saved[n])
       /\ last.saved[n].timestamp = NoTimestamp
       /\ progressMap[n] = last.saved[n]

C10_OneLiveSocketPerName ==
  \A n \in Names : Cardinality(LiveSockets(n)) <= 1

\* a listing with a name twice, one live socket for it after an earlier one
\* of the same name was closed
C10_Witness ==
  /\ \E i, j \in 1..Len(kbs) : i # j /\ kbs[i].name = kbs[j].name
  /\ \E n \in Names :
       /\ Cardinality(LiveSockets(n)) = 1
       /\ \E h \in 1..Len(sockets) :
            sockets[h].name = n /\ sockets[h].readyState = "CLOSED"

\* the names with a socket in the registry that is CONNECTING or OPEN
LiveInRegistry(conns, socks) ==
  {n \in Names : conns[n] # 0 /\ IsLive(socks[conns[n]])}

\* C11: after the sync effect ran with a listing whose set of names differs
\* from the set of the run before, every listed name has a CONNECTING or OPEN
\* socket in the registry and no other name has a socket in it (with an empty
\* listing the registry is empty).
C11_RegistryMatchesListing ==
  [][(/\ last'.ran
      /\ NameSet(KbNames(kbs')) # NameSet(prevRun.names))
     => /\ LiveInRegistry(wsConnectionsRef', sockets') = NameSet(KbNames(kbs'))
        /\ ConnKeys(wsConnectionsRef') = NameSet(KbNames(kbs'))]_vars

\* C12: after the unmount cleanup no socket is CONNECTING or OPEN any more and
\* the registry is empty; running the cleanup again on what it left changes
\* no socket and no registry entry.
C12_TeardownClosesAll ==
  last.op = "unmount"
  => /\ \A h \in 1..Len(sockets) : ~IsLive(sockets[h])
     /\ ConnKeys(wsConnectionsRef) = {}
     /\ CloseAll(wsConnectionsRef, sockets)
          = [conns |-> wsConnectionsRef, socks |-> sockets]

\* the cleanup closed a CONNECTING and an OPEN socket; a third was CLOSED
C12_Witness ==
  /\ last.op = "unmount"
  /\ last.closed = 2
  /\ \E h \in 1..Len(sockets) : sockets[h].readyState = "CLOSED"
  /\ ConnKeys(wsConnectionsRef) = {}

\* the names whose socket in the registry is CLOSED and is replaced by a
\* new socket in this step
Reopened ==
  {n \in Names : /\ wsConnectionsRef[n] # 0
                 /\ sockets[wsConnectionsRef[n]].readyState = "CLOSED"
                 /\ wsConnectionsRef'[n] # 0
                 /\ wsConnectionsRef'[n] # wsConnectionsRef[n]}

NotAProgressUpdate(msg) ==
  \/ ~msg.parsable
  \/ msg.type # "progress"
  \/ ~msg.hasData

\* C14: a message that is no progress update changes neither progressMap nor
\* the stored item, closes and alters no socket and no registry entry, and
\* leaves the page as it was, so that what the handlers do with later
\* messages is what they would have done without it.
C14_MalformedIgnored ==
  [][(last'.op = "message" /\ NotAProgressUpdate(last'.msg))
     => /\ ~last'.accepted
        /\ progressMap' = progressMap
        /\ localStorage' = localStorage
        /\ sockets' = sockets
        /\ wsConnectionsRef' = wsConnectionsRef
        /\ UNCHANGED <<mounted, kbs, loading, storageOk, kbsNamesRef,
                       pendingFetches, now, ticks>>]_vars

\* a message of type error has just arrived on the OPEN socket of a KB that
\* has a record, with the other KB's socket OPEN too
C14_Witness ==
  /\ last.op = "message"
  /\ last.msg.parsable
  /\ last.msg.type = "error"
  /\ progressMap[last.kb] # Absent
  /\ \A n \in PlainNames :
       wsConnectionsRef[n] # 0 /\ sockets[wsConnectionsRef[n]].readyState = "OPEN"

\* the listing the page holds names the KB as initialized
ListedReady(list, n) ==
  \E i \in 1..Len(list) : list[i].name = n /\ list[i].rag_initialized

\* C15: the flag a message is judged by is the KB's rag_initialized in the
\* latest listing: when that listing, received after the socket was opened,
\* says initialized, a non-terminal message more than five minutes old on
\* that socket is rejected.
C15_JudgedByLatestListing ==
  [][(/\ ProgressArrived(last')
      /\ ListedReady(kbs, last'.kb)
      /\ InProgress(last'.msg.data)
      /\ OlderThan(last'.msg.data, now, fiveMinutes))
     => (~last'.accepted /\ progressMap' = progressMap)]_vars

\* C16: clearProgress(kbName) removes the record of kbName from progressMap
\* and from the stored item and leaves every other record in both as it was,
\* whether the backend purge answers with success, with another status, or
\* the request fails.
C16_ClearProgressFrame ==
  [][last'.op = "clearProgress"
     => /\ last'.purge \in PurgeOutcomes
        /\ progressMap'[last'.kb] = Absent
        /\ \A n \in Names \ {last'.kb} : progressMap'[n] = progressMap[n]
        /\ localStorage'.present
        /\ Parse(localStorage'.text)[last'.kb] = Absent
        /\ \A n \in Names \ {last'.kb} :
             Parse(localStorage'.text)[n] = progressMap[n]]_vars

\* the purge request failed; the record is gone and the other KB's is there
C16_Witness ==
  /\ last.op = "clearProgress"
  /\ last.purge = "network"
  /\ last.prevKind # "absent"
  /\ progressMap[last.kb] = Absent
  /\ \E n \in Names : progressMap[n] # Absent

\* the last message of a session is the one addMessage was called with
EndsWith(s, input) ==
  /\ Len(s.messages) > 0
  /\ s.messages[Len(s.messages)].role = input.role
  /\ s.messages[Len(s.messages)].content = input.content

\* C17: while the store refuses writes, an accepted progress message still
\* replaces the record in progressMap, clearProgress still removes it,
\* addMessage still puts the answered or the locally extended session in
\* `session`, loadActiveSession still puts the backend's session there, and
\* no exception leaves the handler; the stored items stay as they were.
C17_MemoryOnlyWhenStoreFails ==
  [][~storageOk
     => /\ (ProgressArrived(last') /\ last'.accepted)
           => /\ progressMap'[last'.kb] = last'.msg.data
              /\ localStorage' = localStorage
        /\ last'.op = "clearProgress"
           => /\ progressMap'[last'.kb] = Absent
              /\ localStorage' = localStorage
        /\ last'.op = "addDone"
           => /\ session'.present
              /\ EndsWith(session', last'.input)
              /\ IF last'.outcome = "ok" THEN session' = server'
                 ELSE Len(session'.messages) = Len(last'.captured.messages) + 1
              /\ sessionCache' = sessionCache
        /\ (last'.op = "loadDone" /\ last'.outcome = "ok" /\ server.present)
           => /\ session' = server
              /\ sessionCache' = sessionCache
        /\ ~last'.threw]_vars

\* the store refuses writes; a failed append has just been added to
\* `session` only, and progressMap holds a record the stored item lacks
C17_Witness ==
  /\ ~storageOk
  /\ last.op = "addDone"
  /\ last.outcome = "network"
  /\ session.present
  /\ LoadFromCache(sessionCache) # session
  /\ \E n \in Names :
       /\ progressMap[n] # Absent
       /\ localStorage.present
       /\ Parse(localStorage.text)[n] # progressMap[n]

\* the append was refused: a network error or a status that is not ok
AppendFailed(step) == step.op = "addDone" /\ step.outcome \in {"status", "network"}

\* C18: when the append of addMessage(role, content, outputDir) fails,
\* `session` and the stored session both become the session the call was
\* made on with one message of that role and content appended at the end,
\* message_count one higher, the earlier messages as they were.
C18_OfflineAppend ==
  [][AppendFailed(last')
     => /\ session'.present
        /\ session'.id = last'.captured.id
        /\ Len(session'.messages) = Len(last'.captured.messages) + 1
        /\ SubSeq(session'.messages, 1, Len(last'.captured.messages))
             = last'.captured.messages
        /\ EndsWith(session', last'.input)
        /\ session'.message_count = last'.captured.message_count + 1
        /\ sessionCache'.present
        /\ Parsable(sessionCache'.text)
        /\ ParseSession(sessionCache'.text) = session']_vars

\* a refused append has just extended a session of two messages by a third
C18_Witness ==
  /\ AppendFailed(last)
  /\ last.outcome = "status"
  /\ Len(last.captured.messages) = 2
  /\ Len(session.messages) = 3
  /\ session.message_count = 3
  /\ LoadFromCache(sessionCache) = session

\* C19: when the append succeeds, `session` and the stored session become the
\* session the backend answered with: the backend's messages with the new one
\* at the end, and no message the hook built itself.
C19_AuthoritativeReplace ==
  [][(last'.op = "addDone" /\ last'.outcome = "ok")
     => /\ session' = server'
        /\ Len(session'.messages) = Len(server.messages) + 1
        /\ SubSeq(session'.messages, 1, Len(server.messages)) = server.messages
        /\ EndsWith(session', last'.input)
        /\ sessionCache'.present
        /\ Parsable(sessionCache'.text)
        /\ ParseSession(sessionCache'.text) = server']_vars

\* the call was made on a session with a message the backend never got; the
\* answer has replaced it
C19_Witness ==
  /\ last.op = "addDone"
  /\ last.outcome = "ok"
  /\ session = server
  /\ \E i \in 1..Len(last.captured.messages) :
       \A j \in 1..Len(session.messages) :
         session.messages[j] # last.captured.messages[i]
  /\ LoadFromCache(sessionCache) = session

\* a session holds a message of the role and content addMessage was given
Holds(s, input) ==
  \E i \in 1..Len(s.messages) :
    s.messages[i].role = input.role /\ s.messages[i].content = input.content

\* no addMessage call awaits its response
NoAppendPending == \A r \in requests : r.kind # "add"

\* C20: when every append fails, then once all addMessage calls have ended,
\* `session` and the stored session hold every message that was added, also
\* when a call started before an earlier one had failed.
C20_NoMessageLost ==
  (NoAppendPending /\ unsent # {})
  => /\ \A input \in unsent : Holds(session, input)
     /\ \A input \in unsent : Holds(LoadFromCache(sessionCache), input)

\* the session the item under STORAGE_KEY holds, if it holds one
StoredSession(item) ==
  IF item.present /\ Parsable(item.text) THEN ParseSession(item.text) ELSE NoSession

\* the backend answered the load with a session
AnsweredWithSession(step) == step.op = "loadDone" /\ step.outcome = "ok" /\ server.present

\* C21: loadActiveSession asks the backend first.  When it answers ok with a
\* session, that session becomes `session`, is stored and is returned.  When
\* the fetch rejects, the status is not ok or the answer is empty, a stored
\* session becomes `session` and is returned.  The call returns null exactly
\* when the backend gave no session and the store holds none.
C21_LoadBackendFirst ==
  [][last'.op = "loadDone"
     => /\ AnsweredWithSession(last')
           => /\ session' = server
              /\ last'.result = server
              /\ StoredSession(sessionCache') = server
        /\ (~AnsweredWithSession(last') /\ StoredSession(sessionCache).present)
           => /\ session' = StoredSession(sessionCache)
              /\ last'.result = StoredSession(sessionCache)
              /\ sessionCache' = sessionCache
        /\ ~last'.result.present
           <=> (~AnsweredWithSession(last') /\ ~StoredSession(sessionCache).present)]_vars

\* the backend holds a session but the request failed, and the stored
\* session, which has a message the backend lacks, was returned
C21_Witness ==
  /\ last.op = "loadDone"
  /\ last.outcome = "network"
  /\ server.present
  /\ last.result.present
  /\ last.result # server
  /\ session = last.result
  /\ StoredSession(sessionCache) = session

\* a call of the debounced save and the time since the call before it
SaveCalled(step) == step.op = "debouncedSave"
SinceLastSave == now - lastSave.at

Overtaken(step) ==
  /\ step.op \in {"addDone", "loadDone"}
  /\ clearedAt > 0
  /\ step.request < clearedAt

\* C24: when a request of addMessage or loadActiveSession that was in
\* flight when clearSession ran ends, with whatever outcome, a session that
\* is absent from `session` and from the store stays absent from both.
C24_ClearedStaysCleared ==
  [][(Overtaken(last') /\ ~session.present /\ ~sessionCache.present)
     => (~session'.present /\ ~sessionCache'.present)]_vars

\* deleteSession was called with the id of the session that was active
DeletedActive(step) == step.captured.present /\ step.captured.id = step.id

\* C25: when the DELETE of deleteSession(id) is rejected or answered with a
\* status that is not ok, `session` and the stored session stay as they are
\* and the call returns false.  When it is answered ok the call returns
\* true, and `session` and the stored session are cleared if id is the id of
\* the session the call was made on, and stay as they are otherwise.
C25_DeleteClearsOnSuccess ==
  [][last'.op = "deleteDone"
     => /\ last'.outcome # "ok"
           => /\ session' = session
              /\ sessionCache' = sessionCache
              /\ ~last'.returned
        /\ (last'.outcome = "ok" /\ DeletedActive(last'))
           => /\ ~session'.present
              /\ ~sessionCache'.present
              /\ last'.returned
        /\ (last'.outcome = "ok" /\ ~DeletedActive(last'))
           => /\ session' = session
              /\ sessionCache' = sessionCache
              /\ last'.returned]_vars

\* the active session, which was stored, has just been deleted and both
\* copies are gone
C25_Witness ==
  /\ last.op = "deleteDone"
  /\ last.outcome = "ok"
  /\ DeletedActive(last)
  /\ last.returned
  /\ ~session.present
  /\ ~sessionCache.present
  /\ ~server.present

\* C26: updateTokenStats changes neither `session` nor the stored session,
\* when it is called and when its PUT ends, ok or not; it lets no exception
\* out and sets no error; called without a session it sends no request.
C26_TokenStatsFrame ==
  [][last'.op \in {"updateTokenStats", "statsDone"}
     => /\ session' = session
        /\ sessionCache' = sessionCache
        /\ lastMessagesRef' = lastMessagesRef
        /\ error' = error
        /\ ~last'.threw
        /\ (last'.op = "updateTokenStats" /\ ~session.present)
           => requests' = requests /\ last'.request = 0
        /\ (last'.op = "updateTokenStats" /\ session.present)
           => \E r \in requests' \ requests : r.kind = "stats" /\ r.id = session.id]_vars

\* the PUT of the token stats was rejected while a stored session is active
C26_Witness ==
  /\ last.op = "statsDone"
  /\ last.outcome = "network"
  /\ session.present
  /\ StoredSession(sessionCache) = session
  /\ error = ""

\* a loadActiveSession called after clearSession has ended in a rejected
\* fetch
LoadFailedAfterClear(step) ==
  /\ step.op = "loadDone"
  /\ step.outcome = "network"
  /\ clearedAt > 0
  /\ step.request > clearedAt

\* C27: clearSession leaves `session` null and no item under the storage
\* key; a loadActiveSession called after it whose fetch is rejected while
\* that is still so returns null and leaves both absent.
C27_ClearLeavesNothing ==
  [][/\ last'.op = "clearSession"
        => /\ ~session'.present
           /\ sessionCache' = NoItem
     /\ (LoadFailedAfterClear(last') /\ ~session.present /\ sessionCache = NoItem)
        => /\ ~last'.result.present
           /\ ~session'.present
           /\ sessionCache' = NoItem]_vars

\* the backend holds a session, the hook had loaded and stored it and then
\* cleared it, and the load after that was rejected and returned null
C27_Witness ==
  /\ LoadFailedAfterClear(last)
  /\ server.present
  /\ ~last.result.present
  /\ ~session.present
  /\ sessionCache = NoItem
  /\ requests = {}
  /\ clearedAt = 2

\* C28: addMessage called while `session` is null sends no request, leaves
\* `session`, the stored session and the backend as they are, and returns
\* null.
C28_AddNeedsSession ==
  [][(last'.op = "addMessage" /\ ~session.present)
     => /\ requests' = requests
        /\ last'.request = 0
        /\ ~last'.result.present
        /\ session' = session
        /\ sessionCache' = sessionCache
        /\ lastMessagesRef' = lastMessagesRef
        /\ server' = server]_vars

\* addMessage has just been called with no session loaded although the
\* store holds one, and nothing was sent
C28_Witness ==
  /\ last.op = "addMessage"
  /\ ~last.captured.present
  /\ last.request = 0
  /\ ~session.present
  /\ StoredSession(sessionCache).present
  /\ \A r \in requests : r.kind # "add"

\* a step has put other messages in `session`, or a session where none was
MessagesChanged ==
  /\ session'.present
  /\ ~session.present \/ session'.messages # session.messages

\* C29: with autoSave on and a store that takes writes, whenever a step
\* puts a session with other messages in `session`, or a session where there
\* was none, the stored session equals `session` afterwards, whichever
\* function set it and also after deleteSession or clearSession.
C29_AutoSaveFollowsMessages ==
  [][(options.autoSave /\ storageOk /\ MessagesChanged)
     => StoredSession(sessionCache') = session']_vars

\* an update with a stage that is not final and a timestamp at most the
\* window old
FreshInProgress(data, t, window) ==
  /\ InProgress(data)
  /\ ~NoUsableTime(data)
  /\ t - data.timestamp.ms <= window

\* C30: for a KB that is rag_initialized, a progress update whose stage is
\* neither "completed" nor "error" and whose timestamp is five minutes old
\* or less, exactly five minutes included, is accepted when the record held
\* is absent or unfinished, and becomes the record held.
C30_FreshUpdateAccepted ==
  [][(/\ ProgressArrived(last')
      /\ last'.msg.parsable
      /\ last'.ragInitialized
      /\ FreshInProgress(last'.msg.data, now, fiveMinutes)
      /\ last'.prevKind \in {"absent", "nonterminal"})
     => /\ last'.accepted
        /\ progressMap'[last'.kb] = last'.msg.data]_vars

\* an update exactly five minutes old has just replaced an unfinished
\* record of a KB that is rag_initialized
C30_Witness ==
  /\ ProgressArrived(last)
  /\ last.ragInitialized
  /\ InProgress(last.msg.data)
  /\ ~NoUsableTime(last.msg.data)
  /\ now - last.msg.data.timestamp.ms = fiveMinutes
  /\ last.prevKind = "nonterminal"
  /\ last.accepted
  /\ progressMap[last.kb] = last.msg.data

\* C31: a progress message whose stage is completed or error is accepted and
\* its data becomes the record of the channel's KB, whatever record was there,
\* whatever rag_initialized the handler holds and whatever time the message
\* carries, if any.
C31_FinishedAlwaysAccepted ==
  [][(ProgressArrived(last') /\ Finished(last'.msg.data))
     => /\ last'.accepted
        /\ progressMap'[last'.kb] = last'.msg.data]_vars

\* a final message without a usable time has just replaced a final record on
\* the channel of a KB listed as initialized
C31_Witness ==
  /\ ProgressArrived(last)
  /\ Finished(last.msg.data)
  /\ last.ragInitialized
  /\ NoUsableTime(last.msg.data)
  /\ last.prevKind = "terminal"
  /\ progressMap[last.kb] = last.msg.data

\* C32: a KB's record is the data of the last message accepted on its channel
\* (since the page last set the record by another operation): every accepted
\* message replaces the record, a rejected one leaves it, and no earlier
\* message's data comes back.
C32_LastAcceptedStored ==
  \A n \in Names : applied[n] # Absent => progressMap[n] = applied[n]

\* a message has just replaced the record an earlier message of the same
\* channel had left, with different data
C32_Witness ==
  /\ ProgressArrived(last)
  /\ last.accepted
  /\ last.prevKind = "nonterminal"
  /\ Finished(last.msg.data)
  /\ applied[last.kb] = last.msg.data
  /\ progressMap[last.kb] = last.msg.data

\* C33: a message on the channel of one KB, accepted or not, leaves the
\* record of every other KB in progressMap as it was.
C33_OtherRecordsUntouched ==
  [][last'.op = "message"
     => \A n \in Names \ {last'.kb} : progressMap'[n] = progressMap[n]]_vars

\* a message has just been stored for one KB while another KB holds a record
C33_Witness ==
  /\ ProgressArrived(last)
  /\ last.accepted
  /\ progressMap[last.kb] = last.msg.data
  /\ \E n \in Names \ {last.kb} : progressMap[n] # Absent

\* C34: the sync effect returns at the names check only if the listing holds
\* exactly the names remembered from the last reconciliation; listings with
\* different sets of names, names with a "," among them, are never taken
\* for the same.
C34_SkipOnlySameNames ==
  [][(last'.ran /\ last'.skipped)
     => NameSet(KbNames(kbs')) = NameSet(kbsNamesRef)]_vars

\* the sync effect has closed the channel of a KB the backend removed: the
\* listing no longer has it and the registry holds no socket for it
GoneFromPage(n) ==
  /\ n \in removed
  /\ ~loading
  /\ \A i \in 1..Len(kbs) : kbs[i].name # n
  /\ wsConnectionsRef[n] = 0

\* C35: once handleDelete removed a KB (DELETE ok, clearProgress, new listing,
\* sync effect closing its channel), neither progressMap nor the stored item
\* holds a record for it, even if a message came on its channel in between.
C35_DeletedLeavesNoRecord ==
  \A n \in Names :
     GoneFromPage(n)
       => /\ progressMap[n] = Absent
          /\ localStorage.present => Parse(localStorage.text)[n] = Absent

C37_OnlyStuckCleared ==
  [][last'.op = "clearAllStuck"
     => /\ \A n \in Names :
             IF Finished(progressMap[n]) THEN progressMap'[n] = progressMap[n]
             ELSE progressMap'[n] = Absent
        /\ localStorage'.present
        /\ Parse(localStorage'.text) = progressMap']_vars

\* clearAllStuckProgress has dropped an unfinished record and kept an error
\* record
C37_Witness ==
  /\ last.op = "clearAllStuck"
  /\ \E n \in Names : InProgress(last.saved[n]) /\ progressMap[n] = Absent
  /\ \E n \in Names : progressMap[n].stage = "error" /\ progressMap[n] = last.saved[n]

\* C38: when deleteSession(id) was called on a session with another id, its
\* end changes neither `session` nor the stored session nor the saved
\* messages reference, whether the DELETE was answered ok, with another status
\* or rejected, and the call returns true exactly when it was answered ok.
C38_DeleteOtherFrame ==
  [][(last'.op = "deleteDone" /\ ~DeletedActive(last'))
     => /\ session' = session
        /\ sessionCache' = sessionCache
        /\ lastMessagesRef' = lastMessagesRef
        /\ last'.returned <=> last'.outcome = "ok"]_vars

\* a session with another id has just been deleted at the backend while the
\* active session, which is stored, stayed
C38_Witness ==
  /\ last.op = "deleteDone"
  /\ last.outcome = "ok"
  /\ last.returned
  /\ last.captured.present
  /\ last.captured.id # last.id
  /\ session = last.captured
  /\ StoredSession(sessionCache) = session

\* the KB of the step was not in the list before the step
NewToList(step) == \A i \in 1..Len(kbs) : kbs[i].name # step.kb

\* C39: after handleCreate succeeded the KB is in the list once (the list
\* stays as it is if it had the KB), its record is initializing at 0 percent
\* with the time of the call, and the run of the sync effect that follows
\* opens exactly one socket for it; after a failed creation the list and
\* progressMap are as before.
C39_OptimisticCreate ==
  [][/\ last'.op = "create"
        => /\ Cardinality({i \in 1..Len(kbs') : kbs'[i].name = last'.kb}) = 1
           /\ ~NewToList(last') => kbs' = kbs
           /\ progressMap'[last'.kb] = InitialProgress(now)
           /\ progressMap'[last'.kb].stage = "initializing"
           /\ progressMap'[last'.kb].percent = 0
           /\ progressMap'[last'.kb].timestamp = TimeAt(now)
           /\ NewToList(last')
                => /\ last'.ran
                   /\ Cardinality({h \in (Len(sockets) + 1)..Len(sockets') :
                                     sockets'[h].name = last'.kb}) = 1
     /\ last'.op = "createFailed"
        => /\ kbs' = kbs
           /\ progressMap' = progressMap]_vars

====
